---- MODULE Spec2Model ----
(***************************************************************************)
(* A model of scalerdb's core data model: Value, Column, Row and the      *)
(* Table CRUD engine with its string-keyed primary-key index.              *)
(***************************************************************************)
EXTENDS Integers, Sequences, FiniteSets, TLC

(***************************************************************************)
(* Bounds of the model.                                                    *)
(***************************************************************************)
\* Largest number of rows a table of the model holds.
MaxRows == 3
\* The Integer32 primary keys used as inputs are 1..MaxId.
MaxId == 2
\* Number of threads that call into one table at the same time.
NumThreads == 2
MaxTasks == 2

(***************************************************************************)
(* Value: a tagged union.  A value is a record with its tag, a numeric     *)
(* payload n (Boolean as 0/1, the integers, and a Double as the numerator  *)
(* of n / DoubleDen) and a string payload s.  A 64-bit integer is          *)
(* hi * Limb + n; hi is 0 for every other tag and for the integers that    *)
(* fit n.                                                                  *)
(***************************************************************************)
ValueType == <<"Null", "Boolean", "Integer32", "Integer64", "Double", "String">>

\* Doubles of the model are the dyadic rationals n / 2^22 with a small n >= 0:
\* exactly representable, so their decimal rendering is computed exactly.
DoubleDen == 2^22

\* The 64-bit integers of the model are the n of the model's integer range and
\* the non-negative hi * Limb + n with 0 <= n < Limb and hi <= Limb, which
\* reach 2^54.
Limb == 2^27

NullValue == [tag |-> "Null", n |-> 0, s |-> "", hi |-> 0]
BoolValue(b) == [tag |-> "Boolean", n |-> IF b THEN 1 ELSE 0, s |-> "", hi |-> 0]
Int32Value(i) == [tag |-> "Integer32", n |-> i, s |-> "", hi |-> 0]
Int64Value(i) == [tag |-> "Integer64", n |-> i, s |-> "", hi |-> 0]
Int64Wide(hi, lo) == [tag |-> "Integer64", n |-> lo, s |-> "", hi |-> hi]
DoubleValue(k) == [tag |-> "Double", n |-> k, s |-> "", hi |-> 0]
StringValue(str) == [tag |-> "String", n |-> 0, s |-> str, hi |-> 0]

getType(v) == v.tag
isNull(v) == v.tag = "Null"

\* An equality in which Null is equal to nothing.
ValueEqNullDistinct(a, b) ==
    IF getType(a) # getType(b) \/ getType(a) = "Null" THEN FALSE
    ELSE IF getType(a) = "String" THEN a.s = b.s
    ELSE a.n = b.n /\ a.hi = b.hi

\* Value::operator== : different tags are never equal, then the payloads.
ValueEq(a, b) ==
    IF getType(a) # getType(b) THEN FALSE
    ELSE CASE getType(a) = "Null" -> TRUE
           [] getType(a) = "String" -> a.s = b.s
           [] OTHER -> a.n = b.n /\ a.hi = b.hi

Digit == <<"0", "1", "2", "3", "4", "5", "6", "7", "8", "9">>

RECURSIVE NatToString(_)
NatToString(i) ==
    IF i < 10 THEN Digit[i + 1]
    ELSE NatToString(i \div 10) \o Digit[(i % 10) + 1]

\* std::to_string of an integer.
IntToString(i) == IF i < 0 THEN "-" \o NatToString(0 - i) ELSE NatToString(i)

\* std::to_string of the 64-bit integer hi * Limb + lo: the digits from the
\* last one on, by division of the two limbs by ten.
RECURSIVE WideToString(_, _)
WideToString(hi, lo) ==
    IF hi = 0 THEN IntToString(lo)
    ELSE LET t == (hi % 10) * Limb + lo
         IN  WideToString(hi \div 10, t \div 10) \o Digit[(t % 10) + 1]

\* std::to_string of a double is printf("%f"): six decimals, rounded to nearest.
\* k / DoubleDen in millionths, rounded (no tie occurs for k < 2^15).
Millionths(k) == (2 * 1000000 * k + DoubleDen) \div (2 * DoubleDen)

SixDigits(m) ==
    Digit[((m \div 100000) % 10) + 1] \o Digit[((m \div 10000) % 10) + 1] \o
    Digit[((m \div 1000) % 10) + 1] \o Digit[((m \div 100) % 10) + 1] \o
    Digit[((m \div 10) % 10) + 1] \o Digit[(m % 10) + 1]

DoubleToString(k) ==
    NatToString(Millionths(k) \div 1000000) \o "." \o SixDigits(Millionths(k) % 1000000)

\* Value::toString
toString(v) ==
    CASE getType(v) = "Null" -> "NULL"
      [] getType(v) = "Boolean" -> IF v.n = 1 THEN "true" ELSE "false"
      [] getType(v) = "Integer32" -> IntToString(v.n)
      [] getType(v) = "Integer64" -> WideToString(v.hi, v.n)
      [] getType(v) = "Double" -> DoubleToString(v.n)
      [] getType(v) = "String" -> v.s

(***************************************************************************)
(* Column                                                                  *)
(***************************************************************************)
\* A constraint validator is a closure; the model keeps the factory's data.
RangeConstraint(lo, hi) == [kind |-> "range", type |-> "Integer32", min |-> lo, max |-> hi]

\* createRangeConstraint<T>(min, max) for another T than int32_t.
RangeConstraintOf(type, lo, hi) == [kind |-> "range", type |-> type, min |-> lo, max |-> hi]

\* Column::createLengthConstraint(min_len, max_len)
LengthConstraint(lo, hi) == [kind |-> "length", type |-> "String", min |-> lo, max |-> hi]

\* A range constraint that leaves its two bounds out.
createRangeConstraintOpen(c, v) ==
    IF isNull(v) THEN TRUE
    ELSE IF getType(v) # c.type THEN FALSE
    ELSE v.n > c.min /\ v.n < c.max

\* Column::createRangeConstraint<T>: Null passes, a value that is not a T is
\* rejected (get<T>() throws, caught), else min <= value <= max.
createRangeConstraint(c, v) ==
    IF isNull(v) THEN TRUE
    ELSE IF getType(v) # c.type THEN FALSE
    ELSE v.n >= c.min /\ v.n <= c.max

Column(name, type, nullable, unique, has_default, default_val, constraints) ==
    [name |-> name, type |-> type, nullable |-> nullable, unique |-> unique,
     has_default |-> has_default, default_value |-> default_val,
     constraints |-> constraints]

\* Column::createLengthConstraint: Null passes, a value that is no string is
\* rejected, else min_len <= length <= max_len.
createLengthConstraint(c, v) ==
    IF isNull(v) THEN TRUE
    ELSE IF getType(v) # "String" THEN FALSE
    ELSE Len(v.s) >= c.min /\ Len(v.s) <= c.max

\* The call of a constraint validator.
ConstraintValidator(c, v) ==
    IF c.kind = "length" THEN createLengthConstraint(c, v) ELSE createRangeConstraint(c, v)

\* Column::validateValue
validateValue(col, v) ==
    IF isNull(v) THEN col.nullable
    ELSE IF getType(v) # col.type THEN FALSE
    ELSE \A i \in 1..Len(col.constraints) : ConstraintValidator(col.constraints[i], v)

\* Column::getDefaultOrNull
getDefaultOrNull(col) == IF col.has_default THEN col.default_value ELSE NullValue

(***************************************************************************)
(* Row: the operations on a row's values_ that the table uses.             *)
(***************************************************************************)
\* Row::Row(schema, values) with a schema attached: throws on an arity mismatch.
RowCtorThrows(schema, values) == Len(values) # Len(schema)

\* Row::setSchema: on an arity mismatch resize (truncate, or pad with Null) and
\* then replace every Null by the column's default; otherwise keep the values.
setSchema(schema, values) ==
    IF Len(values) # Len(schema)
    THEN [i \in 1..Len(schema) |->
            LET resized == IF i <= Len(values) THEN values[i] ELSE NullValue
            IN  IF isNull(resized) THEN getDefaultOrNull(schema[i]) ELSE resized]
    ELSE values

\* A validate that compares the sizes and does not look at the values.
validateArityOnly(schema, values) == Len(values) = Len(schema)

\* Row::validate with a schema attached.
validate(schema, values) ==
    /\ Len(values) = Len(schema)
    /\ \A i \in 1..Len(values) : validateValue(schema[i], values[i])

(***************************************************************************)
(* Table                                                                   *)
(***************************************************************************)
VARIABLES
    name_,                \* Table::name_
    schema_,              \* Table::schema_, a sequence of columns
    primary_key_column_,  \* Table::primary_key_column_, a 0-based column index
    rows_,                \* Table::rows_, a sequence of rows (sequences of values)
    primary_key_index_,   \* Table::primary_key_index_: toString(pk) -> 0-based position
    last,                 \* the last call: operation, arguments, result, state before it
    deleted,              \* the key of the latest deleteRow(k) = true, until stored again
    table_mutex_,         \* Table::table_mutex_: the exclusive owner and the shared owners
    capacity,             \* rows_.capacity(), followed where threads hold row pointers
    pc,                   \* per thread, the place its call has reached
    frame,                \* per thread, its call: arguments, locals and result
    tables_,              \* Database::tables_: table name -> table
    file,                 \* the file that save writes and load reads
    saved,                \* tables_ as it was when save wrote the file
    dbcall,               \* the last call on the database and its result
    locals,               \* the Row objects a caller holds outside of any table
    tasks_,               \* ThreadPool::tasks_, the queue of tasks
    stop_,                \* ThreadPool::stop_
    queue_mutex_,         \* ThreadPool::queue_mutex_: its owner, 0 when free
    workers,              \* per worker thread: the place it has reached, its task
    clients,              \* per thread that uses the pool: its call and the result
    futures,              \* per task: its future, and how often and by whom it was run
    name_to_index_        \* Row::name_to_index_ of the stored rows, one per row of rows_

pvars == <<tasks_, stop_, queue_mutex_, workers, clients, futures>>
tvars == <<table_mutex_, capacity, pc, frame>>
dvars == <<tables_, file, saved, dbcall>>
xvars == <<locals, pvars, name_to_index_>>

vars == <<name_, schema_, primary_key_column_, rows_, primary_key_index_, last, deleted,
          table_mutex_, capacity, pc, frame, tables_, file, saved, dbcall, locals,
          tasks_, stop_, queue_mutex_, workers, clients, futures, name_to_index_>>

\* std::optional<size_t>
nullopt == [has |-> FALSE, val |-> 0]
Some(x) == [has |-> TRUE, val |-> x]

\* Table::initializeTable: the index of the first column named pk_name; the
\* constructor throws when the schema is empty, the name is absent, or the
\* column is not unique or is nullable.
FirstColumnNamed(schema, pk_name) ==
    IF \E i \in 1..Len(schema) : schema[i].name = pk_name
    THEN (CHOOSE i \in 1..Len(schema) :
            /\ schema[i].name = pk_name
            /\ \A j \in 1..(i - 1) : schema[j].name # pk_name) - 1
    ELSE Len(schema)

\* A constructor that looks only for a column of the name.
initializeTableThrowsUnlessFound(schema, pk_name) ==
    \/ Len(schema) = 0
    \/ FirstColumnNamed(schema, pk_name) >= Len(schema)

\* Table::initializeTable: what makes the constructor throw.
initializeTableThrows(schema, pk_name) ==
    \/ Len(schema) = 0
    \/ FirstColumnNamed(schema, pk_name) >= Len(schema)
    \/ ~schema[FirstColumnNamed(schema, pk_name) + 1].unique
    \/ schema[FirstColumnNamed(schema, pk_name) + 1].nullable

\* Table::getPrimaryKeyValue in a table whose primary_key_column_ is pk_col.
getPrimaryKeyValueOf(pk_col, row) == toString(row[pk_col + 1])

\* Table::getPrimaryKeyValue (the row has passed validate, so it has the column).
getPrimaryKeyValue(row) == getPrimaryKeyValueOf(primary_key_column_, row)

\* validateUniqueConstraints that looks at the primary-key column only.
validateUniqueConstraintsPKOnly(rows, row, exclude_index) ==
    \A row_idx \in 0..(Len(rows) - 1) :
        \/ (exclude_index.has /\ row_idx = exclude_index.val)
        \/ ~ValueEq(rows[row_idx + 1][primary_key_column_ + 1], row[primary_key_column_ + 1])

\* Table::validateUniqueConstraints in a table with the schema `schema`.
validateUniqueConstraintsOf(schema, rows, row, exclude_index) ==
    \A col_idx \in 1..Len(schema) :
        schema[col_idx].unique =>
            \A row_idx \in 0..(Len(rows) - 1) :
                \/ (exclude_index.has /\ row_idx = exclude_index.val)
                \/ ~ValueEq(rows[row_idx + 1][col_idx], row[col_idx])

\* Table::validateUniqueConstraints over the stored rows `rows`.
validateUniqueConstraints(rows, row, exclude_index) ==
    validateUniqueConstraintsOf(schema_, rows, row, exclude_index)

\* The outcome of a call: the return value ("true", "false", or "throw" for an
\* exception) with the storage and the index it leaves.
Outcome(ret, rows, index) == [ret |-> ret, rows |-> rows, index |-> index]

\* insertRow that validates the row but looks for no duplicate.
insertRowNoDuplicateChecks(rows, index, row) ==
    LET bound == setSchema(schema_, row)
    IN  IF ~validate(schema_, bound) THEN Outcome("throw", rows, index)
        ELSE Outcome("true", Append(rows, bound),
                     (toString(bound[primary_key_column_ + 1]) :> Len(rows)) @@ index)

\* insertRow that appends the row before it looks the primary key up.
insertRowAppendFirst(rows, index, row) ==
    LET bound == setSchema(schema_, row)
    IN  IF ~validate(schema_, bound) THEN Outcome("throw", rows, index)
        ELSE IF \E c \in 1..Len(schema_) : \E i \in 1..Len(rows) :
                    schema_[c].unique /\ ValueEq(rows[i][c], bound[c])
             THEN Outcome("throw", rows, index)
        ELSE IF toString(bound[primary_key_column_ + 1]) \in DOMAIN index
             THEN Outcome("throw", Append(rows, bound), index)
        ELSE Outcome("true", Append(rows, bound),
                     (toString(bound[primary_key_column_ + 1]) :> Len(rows)) @@ index)

\* Table::insertRow(Row row) in a table with the schema `schema` and the
\* primary-key column pk_col.
insertRowOf(schema, pk_col, rows, index, row) ==
    LET bound == setSchema(schema, row)
    IN  IF ~validate(schema, bound) THEN Outcome("throw", rows, index)
        ELSE IF Len(bound) # Len(schema) THEN Outcome("throw", rows, index)
        ELSE IF ~validateUniqueConstraintsOf(schema, rows, bound, nullopt)
             THEN Outcome("throw", rows, index)
        ELSE IF getPrimaryKeyValueOf(pk_col, bound) \in DOMAIN index
             THEN Outcome("throw", rows, index)
        ELSE Outcome("true", Append(rows, bound),
                     (getPrimaryKeyValueOf(pk_col, bound) :> Len(rows)) @@ index)

\* Table::insertRow(Row row)
insertRow(rows, index, row) ==
    insertRowOf(schema_, primary_key_column_, rows, index, row)

\* Table::insertRow(std::vector<Value> values)
insertRowValues(rows, index, values) ==
    IF RowCtorThrows(schema_, values) THEN Outcome("throw", rows, index)
    ELSE insertRow(rows, index, values)

\* unordered_map::erase
Erase(index, key) == [k \in DOMAIN index \ {key} |-> index[k]]

\* Table::findRowByPK: the 0-based position of the row returned, if any.
findRowByPK(index, primary_key) ==
    IF toString(primary_key) \in DOMAIN index
    THEN Some(index[toString(primary_key)])
    ELSE nullopt

\* updateRow that does not put the erased entry back when the new key exists.
updateRowNoRestore(rows, index, primary_key, new_values) ==
    LET pk_str == toString(primary_key)
    IN  IF pk_str \notin DOMAIN index THEN Outcome("false", rows, index)
        ELSE
        LET row_index == index[pk_str]
        IN  IF RowCtorThrows(schema_, new_values) THEN Outcome("throw", rows, index)
            ELSE IF ~validate(schema_, new_values) THEN Outcome("throw", rows, index)
            ELSE IF ~validateUniqueConstraints(rows, new_values, Some(row_index))
                 THEN Outcome("throw", rows, index)
            ELSE
            LET new_pk_str == getPrimaryKeyValue(new_values)
                erased == Erase(index, pk_str)
                replaced == [rows EXCEPT ![row_index + 1] = new_values]
            IN  IF new_pk_str # pk_str
                THEN IF new_pk_str \in DOMAIN erased
                     THEN Outcome("throw", rows, erased)
                     ELSE Outcome("true", replaced, (new_pk_str :> row_index) @@ erased)
                ELSE Outcome("true", replaced, index)

\* Table::updateRow
updateRow(rows, index, primary_key, new_values) ==
    LET pk_str == toString(primary_key)
    IN  IF pk_str \notin DOMAIN index THEN Outcome("false", rows, index)
        ELSE
        LET row_index == index[pk_str]
        IN  IF RowCtorThrows(schema_, new_values) THEN Outcome("throw", rows, index)
            ELSE IF ~validate(schema_, new_values) THEN Outcome("throw", rows, index)
            ELSE IF ~validateUniqueConstraints(rows, new_values, Some(row_index))
                 THEN Outcome("throw", rows, index)
            ELSE
            LET new_pk_str == getPrimaryKeyValue(new_values)
                erased == Erase(index, pk_str)
                replaced == [rows EXCEPT ![row_index + 1] = new_values]
            IN  IF new_pk_str # pk_str
                THEN IF new_pk_str \in DOMAIN erased
                     THEN Outcome("throw", rows, (pk_str :> row_index) @@ erased)
                     ELSE Outcome("true", replaced, (new_pk_str :> row_index) @@ erased)
                ELSE Outcome("true", replaced, index)

\* vector::erase(begin() + row_index)
EraseAt(rows, row_index) ==
    [i \in 1..(Len(rows) - 1) |-> IF i <= row_index THEN rows[i] ELSE rows[i + 1]]

\* deleteRow that leaves the positions of the later rows as they were.
deleteRowNoRenumber(rows, index, primary_key) ==
    LET pk_str == toString(primary_key)
    IN  IF pk_str \notin DOMAIN index THEN Outcome("false", rows, index)
        ELSE Outcome("true", EraseAt(rows, index[pk_str]), Erase(index, pk_str))

\* Table::deleteRow
deleteRow(rows, index, primary_key) ==
    LET pk_str == toString(primary_key)
    IN  IF pk_str \notin DOMAIN index THEN Outcome("false", rows, index)
        ELSE
        LET row_index == index[pk_str]
            erased == Erase(index, pk_str)
        IN  Outcome("true", EraseAt(rows, row_index),
                    [k \in DOMAIN erased |->
                        IF erased[k] > row_index THEN erased[k] - 1 ELSE erased[k]])

\* The index of a table without rows.
EmptyIndex == [k \in {} |-> 0]

\* clear that empties the row storage and keeps the index.
clearRowsOnly(rows, index) == Outcome("void", <<>>, index)

\* Table::clear
clear(rows, index) == Outcome("void", <<>>, EmptyIndex)

\* Row::buildNameMapping and the lookup by name: every column writes the entry
\* of its name, so the last column of a name is the one found; Len(schema)
\* stands for a name that is not found.
ColumnIndexByName(schema, column_name) ==
    IF \E i \in 1..Len(schema) : schema[i].name = column_name
    THEN (CHOOSE i \in 1..Len(schema) :
            /\ schema[i].name = column_name
            /\ \A j \in (i + 1)..Len(schema) : schema[j].name # column_name) - 1
    ELSE Len(schema)

\* The predicates handed to findRows.  A predicate is a closure; the model
\* keeps what it computes:
\*   "equals"  row.getValue(column) == value
\*   "get"     row.getValue(column).get<T>() == t, T the type of value
\*   "named"   row.getValue(column_name) == value
\*   "caught"  try { return inner(row); } catch (...) { return false; }
Predicate(kind, column, column_name, value) ==
    [kind |-> kind, column |-> column, column_name |-> column_name, value |-> value]
CaughtPredicate(inner) == [kind |-> "caught", inner |-> inner]

Truth(b) == IF b THEN "true" ELSE "false"

\* One call of a predicate without a try block: "true", "false", or "throw"
\* where getValue or get<T>() throws.
Evaluate(predicate, schema, row) ==
    CASE predicate.kind = "equals" ->
            IF predicate.column >= Len(row) THEN "throw"
            ELSE Truth(ValueEq(row[predicate.column + 1], predicate.value))
      [] predicate.kind = "get" ->
            IF predicate.column >= Len(row) THEN "throw"
            ELSE IF getType(row[predicate.column + 1]) # getType(predicate.value) THEN "throw"
            ELSE Truth(ValueEq(row[predicate.column + 1], predicate.value))
      [] predicate.kind = "named" ->
            IF ColumnIndexByName(schema, predicate.column_name) >= Len(schema) THEN "throw"
            ELSE Truth(ValueEq(row[ColumnIndexByName(schema, predicate.column_name) + 1],
                               predicate.value))

\* One call of a predicate.
Call1(predicate, schema, row) ==
    IF predicate.kind = "caught"
    THEN (IF Evaluate(predicate.inner, schema, row) = "throw" THEN "false"
          ELSE Evaluate(predicate.inner, schema, row))
    ELSE Evaluate(predicate, schema, row)

\* Table::findRows: the loop over rows_ from position i on; an exception of
\* the predicate leaves the loop and the function.
RECURSIVE findRowsFrom(_, _, _, _, _)
findRowsFrom(schema, rows, predicate, i, results) ==
    IF i > Len(rows) THEN [ret |-> "results", found |-> results]
    ELSE IF Call1(predicate, schema, rows[i]) = "throw" THEN [ret |-> "throw", found |-> <<>>]
    ELSE findRowsFrom(schema, rows, predicate, i + 1,
                      IF Call1(predicate, schema, rows[i]) = "true"
                      THEN Append(results, i - 1) ELSE results)

\* Table::findRows: the 0-based positions of the rows returned.
findRows(schema, rows, predicate) == findRowsFrom(schema, rows, predicate, 1, <<>>)

\* Table::findRowsByColumn
findRowsByColumn(schema, rows, column_name, value) ==
    findRows(schema, rows, CaughtPredicate(Predicate("named", 0, column_name, value)))

(***************************************************************************)
(* The tables of the model and the arguments the calls are tried with.     *)
(***************************************************************************)
\* users: id and age of the data-model fixture, age with the range [0, 120].
UsersSchema ==
    << Column("id", "Integer32", FALSE, TRUE, FALSE, NullValue, <<>>),
       Column("age", "Integer32", TRUE, FALSE, FALSE, NullValue, <<RangeConstraint(0, 120)>>) >>

\* contacts: email and id of the fixture; email is nullable and unique, the
\* primary key is the second column.
ContactsSchema ==
    << Column("email", "String", TRUE, TRUE, FALSE, NullValue, <<>>),
       Column("id", "Integer32", FALSE, TRUE, FALSE, NullValue, <<>>) >>

\* prices: a Double primary key and a label with a default.
PricesSchema ==
    << Column("price", "Double", FALSE, TRUE, FALSE, NullValue, <<>>),
       Column("label", "String", TRUE, FALSE, TRUE, StringValue("a"), <<>>) >>

TableConfigs ==
    { [name |-> "users", schema |-> UsersSchema, pk |-> "id"],
      [name |-> "contacts", schema |-> ContactsSchema, pk |-> "id"],
      [name |-> "prices", schema |-> PricesSchema, pk |-> "price"] }

Ids == {Int32Value(i) : i \in 1..MaxId}
Prices == {DoubleValue(1), DoubleValue(2), DoubleValue(3)}

\* Rows with one value per column, valid and invalid ones.
UsersRows ==
    { <<id, age>> : id \in Ids \cup {StringValue("1")},
                    age \in {NullValue, Int32Value(28), Int32Value(200)} }
ContactsRows ==
    { <<email, id>> : email \in {NullValue, StringValue("a"), StringValue("b")}, id \in Ids }
PricesRows ==
    { <<price, label>> : price \in Prices, label \in {NullValue, StringValue("b")} }

\* Rows with too few values and rows with one value too many.
OtherArity(full) ==
    {<<>>} \cup { <<r[1]>> : r \in full } \cup { Append(r, Int32Value(1)) : r \in full }

\* Rows handed to insertRow(Row): a Row built without a schema has any arity.
RowInputs ==
    CASE name_ = "users" -> UsersRows \cup OtherArity(UsersRows)
      [] name_ = "contacts" -> ContactsRows \cup OtherArity(ContactsRows)
      [] name_ = "prices" -> PricesRows \cup OtherArity(PricesRows)

\* Value lists handed to insertRow(values) and updateRow: every wrong arity throws
\* in Row's constructor, so one short and one long list stand for all.
ValuesInputs ==
    {<<>>, <<Int32Value(1), NullValue, NullValue>>} \cup
    CASE name_ = "users" -> UsersRows
      [] name_ = "contacts" -> ContactsRows
      [] name_ = "prices" -> PricesRows

\* Keys handed to findRowByPK, updateRow and deleteRow.
KeyInputs ==
    CASE name_ = "users" -> Ids \cup {StringValue("1")}
      [] name_ = "contacts" -> Ids \cup {Int64Value(1)}
      [] name_ = "prices" -> Prices \cup {StringValue("0.000000")}

(***************************************************************************)
(* The state machine: one table, one call at a time.                       *)
(***************************************************************************)
Call(op, key, values, ret, found) ==
    [op |-> op, key |-> key, values |-> values, ret |-> ret, found |-> found,
     rows |-> rows_, index |-> primary_key_index_]

\* The primary-key value of a row that has one value per column.
PKValue(row) == row[primary_key_column_ + 1]

NoKey == [has |-> FALSE, key |-> NullValue]

Threads == 1..NumThreads

\* std::shared_mutex with no owner; thread ids start at 1.
Unlocked == [writer |-> 0, readers |-> {}]

\* The frame of a thread that makes the call `op`.
Frame(op, key, values) ==
    [op |-> op, key |-> key, values |-> values, ret |-> "none",
     found |-> nullopt, dangling |-> FALSE, read |-> <<>>]

\* No thread is calling: the table is used by one caller at a time.
NoThreads ==
    /\ table_mutex_ = Unlocked
    /\ capacity = 0
    /\ pc = [t \in Threads |-> "done"]
    /\ frame = [t \in Threads |-> Frame("none", NullValue, <<>>)]

\* A database without tables and no file.
NoTables == [name \in {} |-> 0]
\* The file at the path: whether it exists, whether its text parses as JSON,
\* who wrote it, and the tables of the document.
FileOf(exists, parses, by, tables) ==
    [exists |-> exists, parses |-> parses, by |-> by, tables |-> tables]
NoFile == FileOf(FALSE, FALSE, "none", <<>>)
DbCall(op, name, ret) == [op |-> op, name |-> name, ret |-> ret]

\* A Row without a schema: schema_ is nullptr.
nullptr == [has |-> FALSE, val |-> <<>>]

\* Row::Row(): no values, no schema, an empty name_to_index_.
Row0 == [values_ |-> <<>>, schema_ |-> nullptr, name_to_index_ |-> [n \in {} |-> 0]]

\* The caller holds two Row objects.
Slots == 1..2

\* ThreadPool pool(2)
thread_count_ == 2
Workers == 1..thread_count_
Tasks == 1..MaxTasks

\* The threads that use the pool: the one that owns it and in the end destroys
\* it, and another one that submits.  Their numbers follow the workers'.
Owner == thread_count_ + 1
Other == thread_count_ + 2
Clients == {Owner, Other}

Client(at, task, ret) ==
    [pc |-> at, task |-> task, ret |-> ret, stopped |-> FALSE, before |-> {}, unfinished |-> {}]

Future(state, value, runs, by) == [state |-> state, value |-> value, runs |-> runs, by |-> by]

\* ThreadPool::ThreadPool: stop_ is false, the queue is empty, and each worker
\* is at the top of worker_thread.
NewPool ==
    /\ tasks_ = <<>>
    /\ stop_ = FALSE
    /\ queue_mutex_ = 0
    /\ workers = [w \in Workers |-> [pc |-> "lock", task |-> 0]]
    /\ clients = [c \in Clients |-> Client("idle", 0, "none")]
    /\ futures = [t \in Tasks |-> Future("none", 0, 0, {})]

\* No Row objects outside the table and a pool nobody uses.
NoLocals ==
    /\ locals = [slot \in Slots |-> Row0]
    /\ NewPool

\* The caches of the stored rows are followed only where threads read rows by
\* column name.
NoObjects ==
    /\ NoLocals
    /\ name_to_index_ = <<>>

NoDatabase ==
    /\ tables_ = NoTables
    /\ file = NoFile
    /\ saved = NoTables
    /\ dbcall = DbCall("new", "", "void")

Init ==
    /\ \E cfg \in TableConfigs :
        /\ ~initializeTableThrows(cfg.schema, cfg.pk)
        /\ name_ = cfg.name
        /\ schema_ = cfg.schema
        /\ primary_key_column_ = FirstColumnNamed(cfg.schema, cfg.pk)
    /\ rows_ = <<>>
    /\ primary_key_index_ = EmptyIndex
    /\ last = [op |-> "new", key |-> NullValue, values |-> <<>>, ret |-> "void",
               found |-> nullopt, rows |-> <<>>, index |-> EmptyIndex]
    /\ deleted = NoKey
    /\ NoThreads
    /\ NoDatabase
    /\ NoObjects

Apply(o) ==
    /\ Len(o.rows) <= MaxRows
    /\ rows_' = o.rows
    /\ primary_key_index_' = o.index
    /\ UNCHANGED <<name_, schema_, primary_key_column_>>

InsertRow ==
    \E row \in RowInputs :
        LET o == insertRow(rows_, primary_key_index_, row)
        IN  /\ Apply(o)
            /\ last' = Call("insertRow", NullValue, row, o.ret, nullopt)

InsertRowValues ==
    \E values \in ValuesInputs :
        LET o == insertRowValues(rows_, primary_key_index_, values)
        IN  /\ Apply(o)
            /\ last' = Call("insertRowValues", NullValue, values, o.ret, nullopt)

FindRowByPK ==
    \E key \in KeyInputs :
        /\ last' = Call("findRowByPK", key, <<>>, "void", findRowByPK(primary_key_index_, key))
        /\ UNCHANGED <<name_, schema_, primary_key_column_, rows_, primary_key_index_>>

UpdateRow ==
    \E key \in KeyInputs, values \in ValuesInputs :
        LET o == updateRow(rows_, primary_key_index_, key, values)
        IN  /\ Apply(o)
            /\ last' = Call("updateRow", key, values, o.ret, nullopt)

DeleteRow ==
    \E key \in KeyInputs :
        LET o == deleteRow(rows_, primary_key_index_, key)
        IN  /\ Apply(o)
            /\ last' = Call("deleteRow", key, <<>>, o.ret, nullopt)

Clear ==
    /\ Apply(clear(rows_, primary_key_index_))
    /\ last' = Call("clear", NullValue, <<>>, "void", nullopt)

\* The history of the latest deleted key is not kept.
Forget == UNCHANGED <<deleted, tvars, dvars, xvars>>

Next ==
    \/ InsertRow /\ Forget
    \/ InsertRowValues /\ Forget
    \/ FindRowByPK /\ Forget
    \/ UpdateRow /\ Forget
    \/ DeleteRow /\ Forget
    \/ Clear /\ Forget

Spec == Init /\ [][Next]_vars

\* The history of the latest deleted key: a deleteRow(k) that returns true
\* sets it to k, and a successful insertRow or updateRow that stores a row
\* whose primary-key value equals it ends it.
Track ==
    /\ UNCHANGED <<tvars, dvars, xvars>>
    /\ deleted' =
        CASE last'.op = "deleteRow" /\ last'.ret = "true" -> [has |-> TRUE, key |-> last'.key]
          [] last'.op = "updateRow" /\ last'.ret = "true"
                /\ deleted.has /\ ValueEq(deleted.key, PKValue(last'.values)) -> NoKey
          [] last'.op \in {"insertRow", "insertRowValues"} /\ last'.ret = "true"
                /\ deleted.has /\ ValueEq(deleted.key, PKValue(rows_'[Len(rows_')])) -> NoKey
          [] OTHER -> deleted

\* The same calls with the history kept.
Watch ==
    \/ InsertRow /\ Track
    \/ InsertRowValues /\ Track
    \/ FindRowByPK /\ Track
    \/ UpdateRow /\ Track
    \/ DeleteRow /\ Track
    \/ Clear /\ Track

SpecWatch == Init /\ [][Watch]_vars

\* Scans.  The column that is scanned is the one that is not the primary key,
\* which is nullable in the three tables.
ScanColumn == CHOOSE c \in 0..(Len(schema_) - 1) : c # primary_key_column_

ScanValues ==
    CASE name_ = "users" -> {Int32Value(28)}
      [] name_ = "contacts" -> {StringValue("a")}
      [] name_ = "prices" -> {StringValue("b")}

PredicateInputs ==
    { Predicate(kind, ScanColumn, "", value) : kind \in {"equals", "get"}, value \in ScanValues }
    \cup { CaughtPredicate(Predicate("get", ScanColumn, "", value)) : value \in ScanValues }

ColumnNameInputs == { schema_[ScanColumn + 1].name, "nope" }

FindRows ==
    \E predicate \in PredicateInputs :
        LET o == findRows(schema_, rows_, predicate)
        IN  /\ last' = Call("findRows", predicate, <<>>, o.ret, o.found)
            /\ UNCHANGED <<name_, schema_, primary_key_column_, rows_, primary_key_index_>>

FindRowsByColumn ==
    \E column_name \in ColumnNameInputs : \E value \in ScanValues :
        LET o == findRowsByColumn(schema_, rows_, column_name, value)
        IN  /\ last' = Call("findRowsByColumn",
                            CaughtPredicate(Predicate("named", 0, column_name, value)),
                            <<>>, o.ret, o.found)
            /\ UNCHANGED <<name_, schema_, primary_key_column_, rows_, primary_key_index_>>

NextScan ==
    \/ InsertRowValues /\ Forget
    \/ FindRows /\ Forget
    \/ FindRowsByColumn /\ Forget

SpecScan == Init /\ [][NextScan]_vars

(***************************************************************************)
(* Threads.  Every thread makes one call on a table that a setup has       *)
(* filled; a call is a sequence of steps, and steps of different threads   *)
(* interleave.  insertRow and the four readers take table_mutex_;          *)
(* updateRow and deleteRow take no lock.                                   *)
(***************************************************************************)
ReaderOps == {"findRowByPK", "getRowCount", "isEmpty", "getAllRows"}

\* Rows a setup stores before the threads start.
SetupRows(name) ==
    CASE name = "users" -> { <<id, Int32Value(28)>> : id \in Ids }
      [] name = "prices" -> { <<DoubleValue(1), StringValue("b")>>,
                              <<DoubleValue(3), StringValue("b")>> }
      [] OTHER -> {}

\* The setups: no row, one row, or two different rows in either order.
Setups(name) ==
    {<<>>} \cup { <<r>> : r \in SetupRows(name) } \cup
    { pair \in SetupRows(name) \X SetupRows(name) : pair[1] # pair[2] }

\* insertRow of the rows of a setup, one after the other.
RECURSIVE InsertAll(_, _)
InsertAll(o, rows) ==
    IF rows = <<>> THEN o
    ELSE LET n == insertRow(o.rows, o.index, Head(rows))
         IN  IF n.ret # "true" THEN n ELSE InsertAll(n, Tail(rows))

\* std::vector growth: push_back into a full buffer allocates a new buffer of
\* twice the size (one element for an empty vector) and frees the old one.
Grow(cap) == IF cap = 0 THEN 1 ELSE 2 * cap

\* capacity() after n push_back calls on an empty vector.
RECURSIVE CapacityAfter(_)
CapacityAfter(n) ==
    IF n = 0 THEN 0
    ELSE IF n - 1 = CapacityAfter(n - 1) THEN Grow(CapacityAfter(n - 1))
         ELSE CapacityAfter(n - 1)

\* The calls a thread makes, per table.
InsertCalls(name) ==
    CASE name = "users" ->
            { Frame("insertRow", NullValue, <<id, Int32Value(28)>>) : id \in Ids } \cup
            { Frame("insertRow", NullValue, <<Int32Value(1), Int32Value(200)>>) }
      [] name = "prices" ->
            { Frame("insertRow", NullValue, <<p, StringValue("b")>>) : p \in Prices }
      [] OTHER -> {}

ThreadKeys(name) ==
    CASE name = "users" -> Ids
      [] name = "prices" -> {DoubleValue(1), DoubleValue(3)}
      [] OTHER -> {}

ReaderCalls(name) ==
    { Frame("findRowByPK", key, <<>>) : key \in ThreadKeys(name) } \cup
    { Frame(op, NullValue, <<>>) : op \in {"getRowCount", "isEmpty", "getAllRows"} }

UnlockedCalls(name) ==
    { Frame("deleteRow", key, <<>>) : key \in ThreadKeys(name) } \cup
    { Frame("updateRow", key, c.values) : key \in ThreadKeys(name), c \in InsertCalls(name) }

\* The first place of a call.
FirstPc(op) ==
    CASE op = "insertRow" -> "insert_lock"
      [] op \in ReaderOps -> "read_lock"
      [] op = "updateRow" -> "update_find"
      [] op = "deleteRow" -> "delete_find"

\* A table after its setup, and one call per thread out of calls(name).
Start(calls(_)) ==
    /\ \E cfg \in {c \in TableConfigs : c.name \in {"users", "prices"}} :
        /\ ~initializeTableThrows(cfg.schema, cfg.pk)
        /\ name_ = cfg.name
        /\ schema_ = cfg.schema
        /\ primary_key_column_ = FirstColumnNamed(cfg.schema, cfg.pk)
    /\ \E setup \in Setups(name_) :
        LET o == InsertAll(Outcome("true", <<>>, EmptyIndex), setup)
        IN  /\ o.ret = "true"
            /\ rows_ = o.rows
            /\ primary_key_index_ = o.index
            /\ capacity = CapacityAfter(Len(o.rows))
            /\ last = [op |-> "setup", key |-> NullValue, values |-> <<>>, ret |-> "void",
                       found |-> nullopt, rows |-> o.rows, index |-> o.index]
    /\ deleted = NoKey
    /\ table_mutex_ = Unlocked
    /\ frame \in [Threads -> calls(name_)]
    /\ NoDatabase
    /\ NoObjects
    /\ pc = [t \in Threads |-> FirstPc(frame[t].op)]

LockedCalls(name) == InsertCalls(name) \cup ReaderCalls(name)
AllCalls(name) == InsertCalls(name) \cup ReaderCalls(name) \cup UnlockedCalls(name)

InitLocked == Start(LockedCalls)
InitThreads == Start(AllCalls)

Goto(t, place) == pc' = [pc EXCEPT ![t] = place]
Return(t, ret) ==
    /\ pc' = [pc EXCEPT ![t] = "done"]
    /\ frame' = [frame EXCEPT ![t].ret = ret]

\* The row pointers that findRowByPK handed out and that point at position
\* `from` or behind it lose their target.
Invalidate(fr, from) ==
    [u \in Threads |->
        IF fr[u].op = "findRowByPK" /\ fr[u].found.has /\ fr[u].found.val >= from
        THEN [fr[u] EXCEPT !.dangling = TRUE] ELSE fr[u]]

\* What a read through a dangling row pointer can give: any row, or a fault.
DanglingReads == SetupRows(name_) \cup {<<>>}

\* insertRow: std::unique_lock lock(table_mutex_)
InsertLock(t) ==
    /\ pc[t] = "insert_lock"
    /\ table_mutex_ = Unlocked
    /\ table_mutex_' = [writer |-> t, readers |-> {}]
    /\ Goto(t, "insert_check")
    /\ UNCHANGED <<dvars, xvars, name_, schema_, primary_key_column_, rows_, primary_key_index_,
                   last, deleted, capacity, frame>>

\* insertRow that keeps the lock when a check throws.
InsertCheckKeepLock(t) ==
    /\ pc[t] = "insert_check"
    /\ IF insertRow(rows_, primary_key_index_, frame[t].values).ret = "throw"
       THEN /\ Return(t, "throw")
            /\ UNCHANGED table_mutex_
       ELSE /\ Goto(t, "insert_push")
            /\ UNCHANGED <<table_mutex_, frame>>
    /\ UNCHANGED <<dvars, xvars, name_, schema_, primary_key_column_, rows_, primary_key_index_,
                   last, deleted, capacity>>

\* insertRow: setSchema, validate, the size check, the unique check and the
\* primary-key lookup; an exception unwinds and releases the lock.
InsertCheck(t) ==
    /\ pc[t] = "insert_check"
    /\ IF insertRow(rows_, primary_key_index_, frame[t].values).ret = "throw"
       THEN /\ Return(t, "throw")
            /\ table_mutex_' = Unlocked
       ELSE /\ Goto(t, "insert_push")
            /\ UNCHANGED <<table_mutex_, frame>>
    /\ UNCHANGED <<dvars, xvars, name_, schema_, primary_key_column_, rows_, primary_key_index_,
                   last, deleted, capacity>>

\* insertRow: new_index = rows_.size(); rows_.push_back(std::move(row))
InsertPush(t) ==
    /\ pc[t] = "insert_push"
    /\ rows_' = Append(rows_, setSchema(schema_, frame[t].values))
    /\ IF Len(rows_) = capacity
       THEN /\ capacity' = Grow(capacity)
            /\ frame' = [Invalidate(frame, 0) EXCEPT ![t].found = Some(Len(rows_))]
       ELSE /\ UNCHANGED capacity
            /\ frame' = [frame EXCEPT ![t].found = Some(Len(rows_))]
    /\ Goto(t, "insert_index")
    /\ UNCHANGED <<dvars, xvars, name_, schema_, primary_key_column_, primary_key_index_,
                   last, deleted, table_mutex_>>

\* insertRow: primary_key_index_[pk_value] = new_index; return true (unlocks)
InsertIndex(t) ==
    /\ pc[t] = "insert_index"
    /\ primary_key_index_' =
         (getPrimaryKeyValue(setSchema(schema_, frame[t].values)) :> frame[t].found.val)
            @@ primary_key_index_
    /\ table_mutex_' = Unlocked
    /\ Return(t, "true")
    /\ UNCHANGED <<dvars, xvars, name_, schema_, primary_key_column_, rows_, last, deleted, capacity>>

\* A reader that takes the shared lock while a thread owns the exclusive lock.
ReadLockIgnoreWriter(t) ==
    /\ pc[t] = "read_lock"
    /\ table_mutex_' = [table_mutex_ EXCEPT !.readers = @ \cup {t}]
    /\ Goto(t, "read_body")
    /\ UNCHANGED <<dvars, xvars, name_, schema_, primary_key_column_, rows_, primary_key_index_,
                   last, deleted, capacity, frame>>

\* getRowCount, isEmpty, findRowByPK, getAllRows: std::shared_lock lock(table_mutex_)
ReadLock(t) ==
    /\ pc[t] = "read_lock"
    /\ table_mutex_.writer = 0
    /\ table_mutex_' = [table_mutex_ EXCEPT !.readers = @ \cup {t}]
    /\ Goto(t, "read_body")
    /\ UNCHANGED <<dvars, xvars, name_, schema_, primary_key_column_, rows_, primary_key_index_,
                   last, deleted, capacity, frame>>

\* The body of a reader and its return, which unlocks.  findRowByPK returns
\* &rows_[it->second]; getAllRows returns a reference to rows_.
ReadBody(t) ==
    /\ pc[t] = "read_body"
    /\ table_mutex_' = [table_mutex_ EXCEPT !.readers = @ \ {t}]
    /\ CASE frame[t].op = "findRowByPK" ->
              LET f == findRowByPK(primary_key_index_, frame[t].key)
              IN  /\ frame' = [frame EXCEPT ![t].found = f,
                                            ![t].dangling = f.has /\ f.val >= Len(rows_),
                                            ![t].ret = IF f.has THEN "row" ELSE "nullptr"]
                  /\ Goto(t, IF f.has THEN "find_read" ELSE "done")
         [] frame[t].op = "getRowCount" ->
              /\ frame' = [frame EXCEPT ![t].found = Some(Len(rows_)), ![t].ret = "size"]
              /\ Goto(t, "done")
         [] frame[t].op = "isEmpty" ->
              Return(t, IF Len(rows_) = 0 THEN "true" ELSE "false")
         [] frame[t].op = "getAllRows" ->
              Return(t, "rows")
    /\ UNCHANGED <<dvars, xvars, name_, schema_, primary_key_column_, rows_, primary_key_index_,
                   last, deleted, capacity>>

\* The caller of findRowByPK reads the values of the row it was handed, after
\* the lock is gone (row->getValue("id"), row->getValue("data")).
FindRead(t) ==
    /\ pc[t] = "find_read"
    /\ IF frame[t].dangling
       THEN \E r \in DanglingReads :
                frame' = [frame EXCEPT ![t].read = r,
                                       ![t].ret = IF r = <<>> THEN "fault" ELSE "row"]
       ELSE frame' = [frame EXCEPT ![t].read = rows_[frame[t].found.val + 1]]
    /\ Goto(t, "done")
    /\ UNCHANGED <<dvars, xvars, name_, schema_, primary_key_column_, rows_, primary_key_index_,
                   last, deleted, capacity, table_mutex_>>

\* updateRow: primary_key_index_.find(pk_str), no lock taken
UpdateFind(t) ==
    /\ pc[t] = "update_find"
    /\ IF toString(frame[t].key) \notin DOMAIN primary_key_index_
       THEN Return(t, "false")
       ELSE /\ frame' = [frame EXCEPT
                           ![t].found = Some(primary_key_index_[toString(frame[t].key)])]
            /\ Goto(t, "update_check")
    /\ UNCHANGED <<dvars, xvars, name_, schema_, primary_key_column_, rows_, primary_key_index_,
                   last, deleted, capacity, table_mutex_>>

\* updateRow: Row's constructor, validate, validateUniqueConstraints, and the
\* comparison of the rendered keys
UpdateCheck(t) ==
    /\ pc[t] = "update_check"
    /\ IF \/ RowCtorThrows(schema_, frame[t].values)
          \/ ~validate(schema_, frame[t].values)
          \/ ~validateUniqueConstraints(rows_, frame[t].values, frame[t].found)
       THEN Return(t, "throw")
       ELSE /\ Goto(t, IF getPrimaryKeyValue(frame[t].values) # toString(frame[t].key)
                       THEN "update_erase" ELSE "update_store")
            /\ UNCHANGED frame
    /\ UNCHANGED <<dvars, xvars, name_, schema_, primary_key_column_, rows_, primary_key_index_,
                   last, deleted, capacity, table_mutex_>>

\* updateRow: primary_key_index_.erase(it), then find(new_pk_str); when the new
\* key exists the old entry is put back and the call throws.  erase(it) of an
\* entry that another thread erased is undefined: a fault, or no effect.
UpdateErase(t) ==
    /\ pc[t] = "update_erase"
    /\ LET pk_str == toString(frame[t].key)
           erased == Erase(primary_key_index_, pk_str)
       IN  \/ /\ pk_str \notin DOMAIN primary_key_index_
              /\ Return(t, "fault")
              /\ UNCHANGED primary_key_index_
           \/ /\ getPrimaryKeyValue(frame[t].values) \in DOMAIN erased
              /\ primary_key_index_' = (pk_str :> frame[t].found.val) @@ erased
              /\ Return(t, "throw")
           \/ /\ getPrimaryKeyValue(frame[t].values) \notin DOMAIN erased
              /\ primary_key_index_' = erased
              /\ Goto(t, "update_assign")
              /\ UNCHANGED frame
    /\ UNCHANGED <<dvars, xvars, name_, schema_, primary_key_column_, rows_,
                   last, deleted, capacity, table_mutex_>>

\* updateRow: primary_key_index_[new_pk_str] = row_index
UpdateAssign(t) ==
    /\ pc[t] = "update_assign"
    /\ primary_key_index_' =
         (getPrimaryKeyValue(frame[t].values) :> frame[t].found.val) @@ primary_key_index_
    /\ Goto(t, "update_store")
    /\ UNCHANGED <<dvars, xvars, name_, schema_, primary_key_column_, rows_,
                   last, deleted, capacity, table_mutex_, frame>>

\* updateRow: rows_[row_index] = std::move(new_row); return true.  A row_index
\* that is no longer below rows_.size() is undefined: a fault.
UpdateStore(t) ==
    /\ pc[t] = "update_store"
    /\ IF frame[t].found.val >= Len(rows_)
       THEN /\ Return(t, "fault")
            /\ UNCHANGED rows_
       ELSE /\ rows_' = [rows_ EXCEPT ![frame[t].found.val + 1] = frame[t].values]
            /\ Return(t, "true")
    /\ UNCHANGED <<dvars, xvars, name_, schema_, primary_key_column_, primary_key_index_,
                   last, deleted, capacity, table_mutex_>>

\* deleteRow: primary_key_index_.find(pk_str), no lock taken
DeleteFind(t) ==
    /\ pc[t] = "delete_find"
    /\ IF toString(frame[t].key) \notin DOMAIN primary_key_index_
       THEN Return(t, "false")
       ELSE /\ frame' = [frame EXCEPT
                           ![t].found = Some(primary_key_index_[toString(frame[t].key)])]
            /\ Goto(t, "delete_erase_index")
    /\ UNCHANGED <<dvars, xvars, name_, schema_, primary_key_column_, rows_, primary_key_index_,
                   last, deleted, capacity, table_mutex_>>

\* deleteRow: primary_key_index_.erase(it); undefined as in updateRow when the
\* entry is gone.
DeleteEraseIndex(t) ==
    /\ pc[t] = "delete_erase_index"
    /\ \/ /\ toString(frame[t].key) \notin DOMAIN primary_key_index_
          /\ Return(t, "fault")
          /\ UNCHANGED primary_key_index_
       \/ /\ primary_key_index_' = Erase(primary_key_index_, toString(frame[t].key))
          /\ Goto(t, "delete_erase_row")
          /\ UNCHANGED frame
    /\ UNCHANGED <<dvars, xvars, name_, schema_, primary_key_column_, rows_,
                   last, deleted, capacity, table_mutex_>>

\* deleteRow: rows_.erase(rows_.begin() + row_index); pointers to the erased
\* row and to the rows behind it are invalidated.
DeleteEraseRow(t) ==
    /\ pc[t] = "delete_erase_row"
    /\ IF frame[t].found.val >= Len(rows_)
       THEN /\ Return(t, "fault")
            /\ UNCHANGED rows_
       ELSE /\ rows_' = EraseAt(rows_, frame[t].found.val)
            /\ frame' = Invalidate(frame, frame[t].found.val)
            /\ Goto(t, "delete_renumber")
    /\ UNCHANGED <<dvars, xvars, name_, schema_, primary_key_column_, primary_key_index_,
                   last, deleted, capacity, table_mutex_>>

\* deleteRow: the loop that decrements the later positions; return true
DeleteRenumber(t) ==
    /\ pc[t] = "delete_renumber"
    /\ primary_key_index_' =
         [k \in DOMAIN primary_key_index_ |->
            IF primary_key_index_[k] > frame[t].found.val
            THEN primary_key_index_[k] - 1 ELSE primary_key_index_[k]]
    /\ Return(t, "true")
    /\ UNCHANGED <<dvars, xvars, name_, schema_, primary_key_column_, rows_,
                   last, deleted, capacity, table_mutex_>>

\* The steps of a thread that calls insertRow or a reader.
LockedStep(t) ==
    InsertLock(t) \/ InsertCheck(t) \/ InsertPush(t) \/ InsertIndex(t)
        \/ ReadLock(t) \/ ReadBody(t) \/ FindRead(t)

NextLocked ==
    \/ \E t \in Threads : InsertLock(t)
    \/ \E t \in Threads : InsertCheck(t)
    \/ \E t \in Threads : InsertPush(t)
    \/ \E t \in Threads : InsertIndex(t)
    \/ \E t \in Threads : ReadLock(t)
    \/ \E t \in Threads : ReadBody(t)
    \/ \E t \in Threads : FindRead(t)

\* Threads that call insertRow and the readers.
SpecLocked == InitLocked /\ [][NextLocked]_vars

\* The same, with every thread that can take a step taking one in the end.
FairSpecLocked == SpecLocked /\ \A t \in Threads : WF_vars(LockedStep(t))

NextThreads ==
    \/ \E t \in Threads : InsertLock(t)
    \/ \E t \in Threads : InsertCheck(t)
    \/ \E t \in Threads : InsertPush(t)
    \/ \E t \in Threads : InsertIndex(t)
    \/ \E t \in Threads : ReadLock(t)
    \/ \E t \in Threads : ReadBody(t)
    \/ \E t \in Threads : FindRead(t)
    \/ \E t \in Threads : UpdateFind(t)
    \/ \E t \in Threads : UpdateCheck(t)
    \/ \E t \in Threads : UpdateErase(t)
    \/ \E t \in Threads : UpdateAssign(t)
    \/ \E t \in Threads : UpdateStore(t)
    \/ \E t \in Threads : DeleteFind(t)
    \/ \E t \in Threads : DeleteEraseIndex(t)
    \/ \E t \in Threads : DeleteEraseRow(t)
    \/ \E t \in Threads : DeleteRenumber(t)

\* Threads that call any of insertRow, the readers, updateRow and deleteRow.
SpecThreads == InitThreads /\ [][NextThreads]_vars

(***************************************************************************)
(* Database and its persistence: SerializableValue / Column / Row / Table  *)
(* / Database, and Database::save and Database::load.                      *)
(***************************************************************************)
\* A table of a database.
TableOf(name, schema, pk_col, rows, index) ==
    [name |-> name, schema |-> schema, primary_key_column |-> pk_col,
     rows |-> rows, index |-> index]

\* static_cast<int>(ValueType)
TypeIndex(tag) == (CHOOSE i \in 1..Len(ValueType) : ValueType[i] = tag) - 1

\* A double: an integer hi * Limb + n, a fraction n / DoubleDen, or not a number.
Number(kind, hi, n) == [kind |-> kind, hi |-> hi, n |-> n]

\* static_cast<double>(int64_t), round to nearest even on 53 bits: exact below
\* 2^53; from 2^53 up to 2^54 the doubles are the even integers.
RoundToDouble(hi, n) ==
    IF hi < Limb \div 2 \/ n % 2 = 0 THEN Number("integer", hi, n)
    ELSE IF n % 4 = 1 THEN Number("integer", hi, n - 1)
    ELSE IF n + 1 = Limb THEN Number("integer", hi + 1, 0)
    ELSE Number("integer", hi, n + 1)

\* What the members that a constructor leaves uninitialized can hold: zeroes,
\* or garbage (a NaN bit pattern, a set bool, an int that is no ValueType).
Junk ==
    { [numeric_data |-> Number("integer", 0, 0), bool_data |-> FALSE, type_index |-> 0],
      [numeric_data |-> Number("nan", 0, 0), bool_data |-> TRUE, type_index |-> 99] }

\* SerializableValue(const Value&): only the member of the value's tag is set.
SerializableValue(value, junk) ==
    [type_index |-> TypeIndex(getType(value)),
     string_data |-> IF getType(value) = "String" THEN value.s ELSE "",
     numeric_data |->
        CASE getType(value) = "Integer32" -> Number("integer", 0, value.n)
          [] getType(value) = "Integer64" -> RoundToDouble(value.hi, value.n)
          [] getType(value) = "Double" -> Number("fraction", 0, value.n)
          [] OTHER -> junk.numeric_data,
     bool_data |-> IF getType(value) = "Boolean" THEN value.n = 1 ELSE junk.bool_data]

\* SerializableValue() = default
SerializableValueDefault(junk) ==
    [type_index |-> junk.type_index, string_data |-> "",
     numeric_data |-> junk.numeric_data, bool_data |-> junk.bool_data]

\* SerializableValue::toValue; type_index has passed ValidTypeIndex.
toValue(sv) ==
    CASE sv.type_index = 0 -> NullValue
      [] sv.type_index = 1 -> BoolValue(sv.bool_data)
      [] sv.type_index = 2 -> Int32Value(sv.numeric_data.n)
      [] sv.type_index = 3 -> Int64Wide(sv.numeric_data.hi, sv.numeric_data.n)
      [] sv.type_index = 4 -> DoubleValue(sv.numeric_data.n)
      [] sv.type_index = 5 -> StringValue(sv.string_data)

\* toValue throws for a type_index that is no ValueType.
ValidTypeIndex(sv) == sv.type_index \in 0..5

\* SerializableColumn(const Column&): the constraints are not taken over.
SerializableColumn(column, junk) ==
    [name |-> column.name, type_index |-> TypeIndex(column.type),
     nullable |-> column.nullable, unique |-> column.unique,
     default_value |-> IF column.has_default
                       THEN SerializableValue(column.default_value, junk)
                       ELSE SerializableValueDefault(junk),
     has_default |-> column.has_default]

\* SerializableColumn::toColumn: a column without constraints.
toColumn(sc) ==
    Column(sc.name, ValueType[sc.type_index + 1], sc.nullable, sc.unique, sc.has_default,
           IF sc.has_default THEN toValue(sc.default_value) ELSE NullValue, <<>>)

\* Column's constructor throws for a default of another type than the column's.
toColumnThrows(sc) ==
    \/ sc.has_default /\ ~ValidTypeIndex(sc.default_value)
    \/ sc.has_default /\ sc.default_value.type_index # 0
                      /\ sc.default_value.type_index # sc.type_index

\* SerializableRow(const Row&)
SerializableRow(row, junk) == [i \in 1..Len(row) |-> SerializableValue(row[i], junk)]

\* SerializableRow::toRow: Row(&columns) holds the defaults, then setValue(i, ..)
\* for the values there are; setValue throws for a value the column rejects.
toRow(sr, columns) ==
    [i \in 1..Len(columns) |->
        IF i <= Len(sr) THEN toValue(sr[i]) ELSE getDefaultOrNull(columns[i])]

toRowThrows(sr, columns) ==
    \E i \in 1..Len(sr) :
        i <= Len(columns) /\ (~ValidTypeIndex(sr[i]) \/ ~validateValue(columns[i], toValue(sr[i])))

\* SerializableTable(const Table&)
SerializableTable(table, junk) ==
    [name |-> table.name,
     columns |-> [i \in 1..Len(table.schema) |-> SerializableColumn(table.schema[i], junk)],
     rows |-> [i \in 1..Len(table.rows) |-> SerializableRow(table.rows[i], junk)],
     primary_key_column |-> table.schema[table.primary_key_column + 1].name]

\* The result of a conversion that can throw.
Thrown == [ok |-> FALSE, val |-> 0]
Ok(val) == [ok |-> TRUE, val |-> val]

\* Rows stored as they come, with no call of insertRow.
AppendRowsOf(schema, pk_col, o, rows) == Outcome("true", o.rows \o rows, o.index)

\* table.insertRow(row) for the rows of `rows`, one after the other.
RECURSIVE InsertRowsOf(_, _, _, _)
InsertRowsOf(schema, pk_col, o, rows) ==
    IF rows = <<>> \/ o.ret # "true" THEN o
    ELSE InsertRowsOf(schema, pk_col,
                      insertRowOf(schema, pk_col, o.rows, o.index, Head(rows)), Tail(rows))

\* SerializableTable::toTable: the columns, Table's constructor, and insertRow
\* of every row.
toTable(st) ==
    IF \E i \in 1..Len(st.columns) : toColumnThrows(st.columns[i]) THEN Thrown
    ELSE
    LET columns == [i \in 1..Len(st.columns) |-> toColumn(st.columns[i])]
    IN  IF initializeTableThrows(columns, st.primary_key_column) THEN Thrown
        ELSE IF \E i \in 1..Len(st.rows) : toRowThrows(st.rows[i], columns) THEN Thrown
        ELSE
        LET pk_col == FirstColumnNamed(columns, st.primary_key_column)
            o == InsertRowsOf(columns, pk_col, Outcome("true", <<>>, EmptyIndex),
                              [i \in 1..Len(st.rows) |-> toRow(st.rows[i], columns)])
        IN  IF o.ret # "true" THEN Thrown
            ELSE Ok(TableOf(st.name, columns, pk_col, o.rows, o.index))

\* createTable that looks for no table of the name.
createTableReplaces(tables, table_name, schema, primary_key_column_name) ==
    IF initializeTableThrows(schema, primary_key_column_name) THEN Thrown
    ELSE Ok((table_name :> TableOf(table_name, schema,
                                   FirstColumnNamed(schema, primary_key_column_name),
                                   <<>>, EmptyIndex)) @@ tables)

\* Database::createTable
createTable(tables, table_name, schema, primary_key_column_name) ==
    IF table_name \in DOMAIN tables THEN Thrown
    ELSE IF initializeTableThrows(schema, primary_key_column_name) THEN Thrown
    ELSE Ok((table_name :> TableOf(table_name, schema,
                                   FirstColumnNamed(schema, primary_key_column_name),
                                   <<>>, EmptyIndex)) @@ tables)

\* SerializableDatabase::toDatabase: every table through toTable, createTable
\* in the new database, and insertRow of the rows of the rebuilt table.
RECURSIVE toDatabase(_, _)
toDatabase(sts, tables) ==
    IF sts = <<>> THEN Ok(tables)
    ELSE
    LET t == toTable(Head(sts))
    IN  IF ~t.ok THEN Thrown
        ELSE
        LET created == createTable(tables, t.val.name, t.val.schema,
                                   t.val.schema[t.val.primary_key_column + 1].name)
        IN  IF ~created.ok THEN Thrown
            ELSE
            LET o == InsertRowsOf(t.val.schema, t.val.primary_key_column,
                                  Outcome("true", <<>>, EmptyIndex), t.val.rows)
            IN  IF o.ret # "true" THEN Thrown
                ELSE toDatabase(Tail(sts),
                        [created.val EXCEPT ![t.val.name].rows = o.rows,
                                            ![t.val.name].index = o.index])

\* The tables in the order the map hands them out.
RECURSIVE InSomeOrder(_)
InSomeOrder(set) ==
    IF set = {} THEN <<>>
    ELSE LET x == CHOOSE x \in set : TRUE IN <<x>> \o InSomeOrder(set \ {x})

\* SerializableDatabase(const Database&)
SerializableDatabase(tables, junk) ==
    LET names == InSomeOrder(DOMAIN tables)
    IN  [i \in 1..Len(names) |-> SerializableTable(tables[names[i]], junk)]

\* nlohmann::json's dump writes a number that is not finite as null.
DumpNumber(d) == IF d.kind = "nan" THEN Number("null", 0, 0) ELSE d
DumpValue(sv) == [sv EXCEPT !.numeric_data = DumpNumber(@)]
DumpTable(st) ==
    [st EXCEPT !.columns = [i \in 1..Len(st.columns) |->
                                [st.columns[i] EXCEPT !.default_value = DumpValue(@)]],
               !.rows = [i \in 1..Len(st.rows) |->
                                [j \in 1..Len(st.rows[i]) |-> DumpValue(st.rows[i][j])]]]

\* What the file system does with the path of a save: the file opens and is
\* written, it does not open, or it opens and the write fails.
Disk == {"ok", "open_fails", "write_fails"}

\* A catch (const std::exception&) that returns false.
Caught(o) == IF o.ret = "throw" THEN [o EXCEPT !.ret = "false"] ELSE o

\* The try block of Database::save: the document, the open (which truncates
\* the file), the write and the check of the stream.
saveTry(tables, document, junk, disk) ==
    LET sd == SerializableDatabase(tables, junk)
    IN  IF disk = "open_fails" THEN [ret |-> "false", file |-> document]
        ELSE IF disk = "write_fails"
             THEN [ret |-> "false", file |-> FileOf(TRUE, FALSE, "save", <<>>)]
        ELSE [ret |-> "true",
              file |-> FileOf(TRUE, TRUE, "save", [i \in 1..Len(sd) |-> DumpTable(sd[i])])]

\* Database::save
save(tables, document, junk, disk) == Caught(saveTry(tables, document, junk, disk))

\* from_json throws for a null where numeric_data needs a number.
FromJsonThrows(document) ==
    \E i \in 1..Len(document.tables) :
        \/ \E c \in 1..Len(document.tables[i].columns) :
                document.tables[i].columns[c].default_value.numeric_data.kind = "null"
        \/ \E r \in 1..Len(document.tables[i].rows) :
            \E j \in 1..Len(document.tables[i].rows[r]) :
                document.tables[i].rows[r][j].numeric_data.kind = "null"

\* The try block of Database::load: open, parse (throws for a text that is no
\* JSON), from_json, tables_.clear(), toDatabase, and the move of the rebuilt
\* tables.
loadTry(tables, document) ==
    IF ~document.exists THEN [ret |-> "false", tables |-> tables]
    ELSE IF ~document.parses THEN [ret |-> "throw", tables |-> tables]
    ELSE IF FromJsonThrows(document) THEN [ret |-> "throw", tables |-> tables]
    ELSE LET db == toDatabase(document.tables, NoTables)
         IN  IF ~db.ok THEN [ret |-> "throw", tables |-> NoTables]
             ELSE [ret |-> "true", tables |-> db.val]

\* load that reports success and leaves the tables as they are.
loadKeepsTables(tables, document) ==
    IF ~document.exists THEN [ret |-> "false", tables |-> tables]
    ELSE [ret |-> "true", tables |-> tables]

\* load without its catch.
loadRethrows(tables, document) == loadTry(tables, document)

\* Database::load: every exception is caught and gives false.
load(tables, document) == Caught(loadTry(tables, document))

\* The tables of the database runs: users with its range constraint, and the
\* table of the round-trip test with a column of every type, here with a
\* default for the last one.
TypesSchema ==
    << Column("id", "Integer32", FALSE, TRUE, FALSE, NullValue, <<>>),
       Column("null_col", "String", TRUE, FALSE, FALSE, NullValue, <<>>),
       Column("bool_col", "Boolean", FALSE, FALSE, FALSE, NullValue, <<>>),
       Column("int32_col", "Integer32", FALSE, FALSE, FALSE, NullValue, <<>>),
       Column("int64_col", "Integer64", FALSE, FALSE, FALSE, NullValue, <<>>),
       Column("double_col", "Double", FALSE, FALSE, FALSE, NullValue, <<>>),
       Column("string_col", "String", FALSE, FALSE, TRUE, StringValue("a"), <<>>) >>

DbConfigs ==
    { [name |-> "users", schema |-> UsersSchema, pk |-> "id"],
      [name |-> "types", schema |-> TypesSchema, pk |-> "id"] }

\* 64-bit integers: 5, 2^53 and 2^53 + 1.
Int64Inputs == {Int64Value(5), Int64Wide(Limb \div 2, 0), Int64Wide(Limb \div 2, 1)}

DbRows(name) ==
    CASE name = "users" -> { <<id, age>> : id \in Ids, age \in {Int32Value(28), Int32Value(200)} }
      [] name = "types" ->
            { <<Int32Value(1), NullValue, BoolValue(TRUE), Int32Value(2), i, DoubleValue(3),
                StringValue("b")>> :
                i \in Int64Inputs }
      [] OTHER -> {}

\* Documents that something other than save put at the path.  Their numbers
\* are all written out, as in a file that an editor or another program wrote.
Written == CHOOSE junk \in Junk : junk.numeric_data.kind = "integer"

DocTable(name, schema, pk_name, rows) ==
    [name |-> name,
     columns |-> [i \in 1..Len(schema) |-> SerializableColumn(schema[i], Written)],
     rows |-> [i \in 1..Len(rows) |-> SerializableRow(rows[i], Written)],
     primary_key_column |-> pk_name]

\* users with the primary-key column changed.
UsersWithId(nullable, unique) ==
    [UsersSchema EXCEPT ![1] = Column("id", "Integer32", nullable, unique, FALSE, NullValue, <<>>)]

Documents ==
    { \* a text that is no JSON
      FileOf(TRUE, FALSE, "other", <<>>),
      \* a sound document
      FileOf(TRUE, TRUE, "other",
             <<DocTable("users", UsersSchema, "id",
                        <<(<<Int32Value(1), Int32Value(28)>>), (<<Int32Value(2), Int32Value(28)>>)>>)>>),
      \* a row with fewer values than columns: the missing one is the default
      FileOf(TRUE, TRUE, "other",
             <<DocTable("users", UsersSchema, "id", <<(<<Int32Value(1)>>)>>)>>),
      \* two rows with the same primary key
      FileOf(TRUE, TRUE, "other",
             <<DocTable("users", UsersSchema, "id",
                        <<(<<Int32Value(1), Int32Value(28)>>), (<<Int32Value(1), NullValue>>)>>)>>),
      \* two rows with the same value in the unique column email
      FileOf(TRUE, TRUE, "other",
             <<DocTable("contacts", ContactsSchema, "id",
                        <<(<<StringValue("a"), Int32Value(1)>>),
                          (<<StringValue("a"), Int32Value(2)>>)>>)>>),
      \* a null in the non-nullable column id
      FileOf(TRUE, TRUE, "other",
             <<DocTable("users", UsersSchema, "id", <<(<<NullValue, Int32Value(28)>>)>>)>>),
      \* a String in the Integer32 column age, and one in the column id
      FileOf(TRUE, TRUE, "other",
             <<DocTable("users", UsersSchema, "id", <<(<<Int32Value(1), StringValue("a")>>)>>)>>),
      FileOf(TRUE, TRUE, "other",
             <<DocTable("users", UsersSchema, "id", <<(<<StringValue("1"), NullValue>>)>>)>>),
      \* a primary-key name that no column has
      FileOf(TRUE, TRUE, "other", <<DocTable("users", UsersSchema, "key", <<>>)>>),
      \* a primary-key column that is nullable, and one that is not unique
      FileOf(TRUE, TRUE, "other", <<DocTable("users", UsersWithId(TRUE, TRUE), "id", <<>>)>>),
      FileOf(TRUE, TRUE, "other", <<DocTable("users", UsersWithId(FALSE, FALSE), "id", <<>>)>>),
      \* no column at all
      FileOf(TRUE, TRUE, "other", <<DocTable("users", <<>>, "id", <<>>)>>),
      \* two tables with one name
      FileOf(TRUE, TRUE, "other",
             <<DocTable("users", UsersSchema, "id", <<>>),
               DocTable("users", UsersSchema, "id", <<>>)>>) }

\* Something other than save writes the file.
WriteFile ==
    \E document \in Documents :
        /\ file' = document
        /\ saved' = NoTables
        /\ dbcall' = DbCall("write", "", "void")
        /\ UNCHANGED tables_

\* A database, one call at a time; the table variables are not used.
InitDatabase ==
    /\ name_ = "" /\ schema_ = <<>> /\ primary_key_column_ = 0
    /\ rows_ = <<>> /\ primary_key_index_ = EmptyIndex
    /\ last = [op |-> "new", key |-> NullValue, values |-> <<>>, ret |-> "void",
               found |-> nullopt, rows |-> <<>>, index |-> EmptyIndex]
    /\ deleted = NoKey
    /\ NoThreads
    /\ NoDatabase
    /\ NoObjects

CreateTable ==
    \E cfg \in DbConfigs :
        LET created == createTable(tables_, cfg.name, cfg.schema, cfg.pk)
        IN  /\ tables_' = IF created.ok THEN created.val ELSE tables_
            /\ dbcall' = DbCall("createTable", cfg.name, IF created.ok THEN "table" ELSE "throw")
            /\ UNCHANGED <<file, saved>>

\* getTable(name)->insertRow(row)
\* The rows offered to a table: those of DbRows whose Integer32 key is not
\* below a stored one.  The order in which keys arrive plays no part in what
\* save writes and load rebuilds, so rows arrive in ascending order of key; a
\* row with the key stored last is still offered, and rejected.
Offered(name) ==
    LET t == tables_[name]
    IN  { row \in DbRows(name) :
            \A i \in 1..Len(t.rows) :
                t.rows[i][t.primary_key_column + 1].n <= row[t.primary_key_column + 1].n }

InsertInto ==
    \E name \in DOMAIN tables_ : \E row \in Offered(name) :
        LET t == tables_[name]
            o == insertRowOf(t.schema, t.primary_key_column, t.rows, t.index, row)
        IN  /\ Len(o.rows) <= MaxRows
            /\ tables_' = [tables_ EXCEPT ![name].rows = o.rows, ![name].index = o.index]
            /\ dbcall' = DbCall("insertRow", name, o.ret)
            /\ UNCHANGED <<file, saved>>

\* Database::save.  The uninitialized members are written only when the file
\* is written, so they are chosen only then.
Save ==
    \E disk \in Disk : \E junk \in (IF disk = "ok" THEN Junk ELSE {CHOOSE j \in Junk : TRUE}) :
        LET o == save(tables_, file, junk, disk)
        IN  /\ file' = o.file
            /\ saved' = IF o.ret = "true" THEN tables_
                        ELSE IF o.file = file THEN saved ELSE NoTables
            /\ dbcall' = DbCall("save", disk, o.ret)
            /\ UNCHANGED tables_

Load ==
    LET o == load(tables_, file)
    IN  /\ tables_' = o.tables
        /\ dbcall' = DbCall("load", "", o.ret)
        /\ UNCHANGED <<file, saved>>

\* The table variables and the threads are not used by the database runs.
NoTable ==
    UNCHANGED <<name_, schema_, primary_key_column_, rows_, primary_key_index_,
                last, deleted, tvars, xvars>>

NextDatabase ==
    \/ CreateTable /\ NoTable
    \/ InsertInto /\ NoTable
    \/ Save /\ NoTable
    \/ Load /\ NoTable
    \/ WriteFile /\ NoTable

SpecDatabase == InitDatabase /\ [][NextDatabase]_vars

(***************************************************************************)
(* The tables of a database: createTable, createSimpleTable, dropTable,    *)
(* hasTable and getTable.                                                  *)
(***************************************************************************)
\* Database::hasTable
hasTable(tables, table_name) == table_name \in DOMAIN tables

\* Database::getTable: the table, or no table (nullptr).
getTable(tables, table_name) ==
    IF table_name \in DOMAIN tables THEN Some(tables[table_name]) ELSE nullopt

\* Database::getTableCount
getTableCount(tables) == Cardinality(DOMAIN tables)

\* The map without the entry of table_name.
EraseTable(tables, table_name) == [n \in DOMAIN tables \ {table_name} |-> tables[n]]

\* dropTable that reports the table and leaves it where it is.
dropTableKeepsTable(tables, table_name) ==
    [ret |-> IF table_name \in DOMAIN tables THEN "true" ELSE "false", tables |-> tables]

\* Database::dropTable
dropTable(tables, table_name) ==
    IF table_name \in DOMAIN tables
    THEN [ret |-> "true", tables |-> EraseTable(tables, table_name)]
    ELSE [ret |-> "false", tables |-> tables]

\* A column specification of createSimpleTable: (name, type, nullable).
ColumnSpec(name, type, nullable) == [name |-> name, type |-> type, nullable |-> nullable]

\* The schema createSimpleTable builds from the specifications.
SimpleSchema(column_specs, primary_key_column_name) ==
    [i \in 1..Len(column_specs) |->
        LET unique == column_specs[i].name = primary_key_column_name
            actual_nullable == IF column_specs[i].name = primary_key_column_name
                               THEN FALSE ELSE column_specs[i].nullable
        IN  Column(column_specs[i].name, column_specs[i].type, actual_nullable, unique,
                   FALSE, NullValue, <<>>)]

\* createSimpleTable that hands the caller's nullable flags on.
createSimpleTableKeepsFlags(tables, table_name, column_specs, primary_key_column_name) ==
    createTable(tables, table_name,
                [i \in 1..Len(column_specs) |->
                    Column(column_specs[i].name, column_specs[i].type,
                           column_specs[i].nullable,
                           column_specs[i].name = primary_key_column_name,
                           FALSE, NullValue, <<>>)],
                primary_key_column_name)

\* Database::createSimpleTable
createSimpleTable(tables, table_name, column_specs, primary_key_column_name) ==
    createTable(tables, table_name, SimpleSchema(column_specs, primary_key_column_name),
                primary_key_column_name)

\* Two columns of one name.
TwiceIdSchema ==
    << Column("id", "Integer32", FALSE, TRUE, FALSE, NullValue, <<>>),
       Column("id", "String", TRUE, FALSE, FALSE, NullValue, <<>>) >>

\* The createTable calls that are tried: schemas that Table's constructor
\* accepts, under two names, and schemas that it rejects.
CatalogConfigs ==
    { [name |-> "users", schema |-> UsersSchema, pk |-> "id"],
      [name |-> "users", schema |-> ContactsSchema, pk |-> "id"],
      [name |-> "twice", schema |-> TwiceIdSchema, pk |-> "id"],
      [name |-> "users", schema |-> <<>>, pk |-> "id"],
      [name |-> "twice", schema |-> UsersSchema, pk |-> "key"],
      [name |-> "twice", schema |-> UsersWithId(TRUE, TRUE), pk |-> "id"],
      [name |-> "twice", schema |-> UsersWithId(FALSE, FALSE), pk |-> "id"] }

\* The createSimpleTable calls that are tried.
SimpleConfigs ==
    { [name |-> n, pk |-> pk, specs |-> specs] :
        n \in {"simple", "users"}, pk \in {"id", "key"},
        specs \in { <<>>,
                    <<ColumnSpec("id", "Integer32", FALSE), ColumnSpec("name", "String", FALSE),
                      ColumnSpec("active", "Boolean", TRUE)>>,
                    <<ColumnSpec("name", "String", TRUE), ColumnSpec("id", "Integer32", TRUE)>> } }

TableNames == {"users", "twice", "simple", "non_existent"}

\* The last call on the database with its arguments.
DbCallWith(op, name, ret, arg) == [op |-> op, name |-> name, ret |-> ret, arg |-> arg]

CreateAnyTable ==
    \E cfg \in CatalogConfigs :
        LET created == createTable(tables_, cfg.name, cfg.schema, cfg.pk)
        IN  /\ tables_' = IF created.ok THEN created.val ELSE tables_
            /\ dbcall' = DbCallWith("createTable", cfg.name,
                                    IF created.ok THEN "table" ELSE "throw", cfg)
            /\ UNCHANGED <<file, saved>>

CreateSimpleTable ==
    \E cfg \in SimpleConfigs :
        LET created == createSimpleTable(tables_, cfg.name, cfg.specs, cfg.pk)
        IN  /\ tables_' = IF created.ok THEN created.val ELSE tables_
            /\ dbcall' = DbCallWith("createSimpleTable", cfg.name,
                                    IF created.ok THEN "table" ELSE "throw", cfg)
            /\ UNCHANGED <<file, saved>>

DropTable ==
    \E table_name \in TableNames :
        LET o == dropTable(tables_, table_name)
        IN  /\ tables_' = o.tables
            /\ dbcall' = DbCallWith("dropTable", table_name, o.ret, table_name)
            /\ UNCHANGED <<file, saved>>

NextCatalog ==
    \/ CreateAnyTable /\ NoTable
    \/ CreateSimpleTable /\ NoTable
    \/ DropTable /\ NoTable
    \/ InsertInto /\ NoTable

SpecCatalog == InitDatabase /\ [][NextCatalog]_vars

(***************************************************************************)
(* Column::validateValue on its own: columns and values of the column      *)
(* tests.                                                                  *)
(***************************************************************************)
ConstraintInputs ==
    { <<>>, <<RangeConstraint(18, 100)>>, <<LengthConstraint(2, 5)>>,
      <<RangeConstraint(0, 120), RangeConstraint(18, 100)>>,
      <<RangeConstraintOf("Integer64", 18, 100)>> }

ColumnInputs ==
    { Column("col", type, nullable, FALSE, FALSE, NullValue, constraints) :
        type \in {"Integer32", "String"}, nullable \in BOOLEAN,
        constraints \in ConstraintInputs }

ValueInputs ==
    { NullValue, BoolValue(TRUE), Int64Value(18), DoubleValue(18),
      Int32Value(17), Int32Value(18), Int32Value(25), Int32Value(100), Int32Value(101),
      StringValue("a"), StringValue("ab"), StringValue("hello"), StringValue("hello!") }

ValidateValue ==
    \E col \in ColumnInputs : \E v \in ValueInputs :
        /\ last' = [op |-> "validateValue", column |-> col, value |-> v,
                    ret |-> validateValue(col, v)]
        /\ UNCHANGED <<name_, schema_, primary_key_column_, rows_, primary_key_index_,
                       deleted, tvars, dvars, xvars>>

NextColumn == ValidateValue

SpecColumn == InitDatabase /\ [][NextColumn]_vars

(***************************************************************************)
(* Properties.  `last` holds the latest call with the storage and index    *)
(* it started from; rows_ and primary_key_index_ are what it left.         *)
(***************************************************************************)
Positions(rows) == 1..Len(rows)
IsInsert == last.op \in {"insertRow", "insertRowValues"}
HasArity(values) == Len(values) = Len(schema_)

\* Some row of `rows` other than the one at 0-based position `except` (if any)
\* holds a value equal to `row`'s in a unique column.
UniqueClash(rows, row, except) ==
    \E c \in 1..Len(schema_) : \E i \in Positions(rows) :
        /\ schema_[c].unique
        /\ ~(except.has /\ i = except.val + 1)
        /\ ValueEq(rows[i][c], row[c])

\* C1: after any sequence of insertRow, updateRow and deleteRow calls, no two
\* stored rows hold equal values in the primary-key column.
C1_PrimaryKeyUnique ==
    \A i, j \in Positions(rows_) :
        i # j => ~ValueEq(PKValue(rows_[i]), PKValue(rows_[j]))

\* C1 witness: two rows are stored and the latest call was an updateRow that
\* gave its row another primary key.
C1_Witness ==
    /\ Len(rows_) >= 2
    /\ last.op = "updateRow" /\ last.ret = "true"
    /\ ~ValueEq(last.key, PKValue(last.values))

\* C2: after any sequence of insertRow, updateRow, deleteRow and clear calls the
\* primary-key index has exactly one entry per stored row, every position is
\* below the row count, no two entries share a position, and the entry for key
\* string k points at the row whose primary-key value renders to k.
C2_IndexConsistent ==
    /\ Cardinality(DOMAIN primary_key_index_) = Len(rows_)
    /\ \A k \in DOMAIN primary_key_index_ :
        /\ primary_key_index_[k] \in 0..(Len(rows_) - 1)
        /\ toString(PKValue(rows_[primary_key_index_[k] + 1])) = k
    /\ \A k1, k2 \in DOMAIN primary_key_index_ :
        k1 # k2 => primary_key_index_[k1] # primary_key_index_[k2]

\* C2 witness: a deleteRow removed a row that had a later row behind it.
C2_Witness ==
    /\ last.op = "deleteRow" /\ last.ret = "true"
    /\ last.index[toString(last.key)] + 1 < Len(last.rows)

\* C3: for every unique column at most one stored row holds any given non-null
\* value, and an insertRow whose value in a unique column equals that of a
\* stored row is rejected.
C3_UniqueColumns ==
    /\ \A c \in 1..Len(schema_) : \A i, j \in Positions(rows_) :
        (schema_[c].unique /\ i # j /\ ~isNull(rows_[i][c]))
            => ~ValueEq(rows_[i][c], rows_[j][c])
    /\ (IsInsert /\ HasArity(last.values) /\ UniqueClash(last.rows, last.values, nullopt))
            => last.ret = "throw"

\* C3 witness: an insertRow with a fresh primary key was rejected for its email,
\* which a stored row holds.
C3_Witness ==
    /\ name_ = "contacts" /\ IsInsert /\ last.ret = "throw"
    /\ HasArity(last.values) /\ validate(schema_, last.values)
    /\ toString(PKValue(last.values)) \notin DOMAIN last.index
    /\ \E i \in Positions(rows_) :
        ~isNull(rows_[i][1]) /\ ValueEq(rows_[i][1], last.values[1])

\* C4: an insertRow that fails leaves rows and index exactly as before, and a
\* row with a null in a non-nullable column, a wrongly typed value, a value a
\* constraint rejects, a duplicate in a unique column or a primary key that is
\* already present does fail.
C4_FailedInsertChangesNothing ==
    /\ (IsInsert /\ last.ret # "true")
            => (rows_ = last.rows /\ primary_key_index_ = last.index)
    /\ (IsInsert /\ HasArity(last.values) /\
            (\/ ~validate(schema_, last.values)
             \/ UniqueClash(last.rows, last.values, nullopt)
             \/ \E i \in Positions(last.rows) :
                    ValueEq(PKValue(last.rows[i]), PKValue(last.values))))
            => last.ret = "throw"

\* C4 witness: age 200 was rejected by the range [0, 120] on a table with rows.
C4_Witness ==
    /\ name_ = "users" /\ IsInsert /\ last.ret = "throw"
    /\ HasArity(last.values) /\ last.values[2] = Int32Value(200)
    /\ getType(last.values[1]) = "Integer32"
    /\ Len(rows_) >= 1

\* C5: a successful insertRow(r) raises the row count by one, stores r at the
\* end with every earlier row and its index entry unchanged, and findRowByPK of
\* r's primary key then returns a row with r's values.
C5_InsertAppends ==
    (IsInsert /\ last.ret = "true") =>
        /\ Len(rows_) = Len(last.rows) + 1
        /\ SubSeq(rows_, 1, Len(last.rows)) = last.rows
        /\ \A k \in DOMAIN last.index :
            k \in DOMAIN primary_key_index_ /\ primary_key_index_[k] = last.index[k]
        /\ rows_[Len(rows_)] = last.values
        /\ findRowByPK(primary_key_index_, PKValue(last.values)).has
        /\ rows_[findRowByPK(primary_key_index_, PKValue(last.values)).val + 1] = last.values

\* Some row of `rows` has a primary-key value equal to `key`.
HasKey(rows, key) == \E i \in Positions(rows) : ValueEq(PKValue(rows[i]), key)

\* C6: findRowByPK(key) returns a row exactly when some stored row's primary-key
\* value equals key under Value equality, and then that row; updateRow(key, ..)
\* and deleteRow(key) find a row to act on in exactly the same case.
C6_KeyMatching ==
    /\ last.op = "findRowByPK" =>
        IF HasKey(rows_, last.key)
        THEN last.found.has /\ ValueEq(PKValue(rows_[last.found.val + 1]), last.key)
        ELSE ~last.found.has
    /\ last.op \in {"updateRow", "deleteRow"} =>
        (last.ret = "false" <=> ~HasKey(last.rows, last.key))

\* C7: a successful updateRow(k, v) keeps the row count, puts v at the position
\* the row had and leaves every other row alone; findRowByPK of v's primary key
\* returns a row with values v, and if v's primary key differs from k then
\* findRowByPK(k) returns not-found.
C7_UpdateInPlace ==
    (last.op = "updateRow" /\ last.ret = "true") =>
        /\ Len(rows_) = Len(last.rows)
        /\ \A i \in Positions(rows_) :
            rows_[i] = IF i = last.index[toString(last.key)] + 1
                       THEN last.values ELSE last.rows[i]
        /\ findRowByPK(primary_key_index_, PKValue(last.values)).has
        /\ rows_[findRowByPK(primary_key_index_, PKValue(last.values)).val + 1] = last.values
        /\ ~ValueEq(PKValue(last.values), last.key)
                => ~findRowByPK(primary_key_index_, last.key).has

\* C8: an updateRow(k, v) that fails leaves rows and index as before, so that
\* findRowByPK(k) still returns the original row; and an updateRow of a stored
\* key with a wrong number of values, a value failing validation, a duplicate
\* in a unique column of another row or another row's primary key does fail.
C8_FailedUpdateChangesNothing ==
    /\ (last.op = "updateRow" /\ last.ret = "throw") =>
        /\ rows_ = last.rows
        /\ primary_key_index_ = last.index
        /\ findRowByPK(primary_key_index_, last.key).has
        /\ rows_[findRowByPK(primary_key_index_, last.key).val + 1]
                = last.rows[last.index[toString(last.key)] + 1]
    /\ (last.op = "updateRow" /\ toString(last.key) \in DOMAIN last.index /\
            (\/ ~HasArity(last.values)
             \/ ~validate(schema_, last.values)
             \/ UniqueClash(last.rows, last.values, Some(last.index[toString(last.key)]))))
            => last.ret = "throw"

\* C8 witness: an updateRow failed although its row was valid and clashed with
\* no other row in a unique column: the new key's index entry was taken.
C8_Witness ==
    /\ last.op = "updateRow" /\ last.ret = "throw"
    /\ HasArity(last.values) /\ validate(schema_, last.values)
    /\ ~UniqueClash(last.rows, last.values, Some(last.index[toString(last.key)]))

\* C9: a successful deleteRow(k) lowers the row count by one and removes only
\* the row with key k: the other rows keep their order, every index entry with
\* a greater position is decremented, and every other key resolves through
\* findRowByPK to a row with the same values as before.
C9_DeleteRemovesOnlyKey ==
    (last.op = "deleteRow" /\ last.ret = "true") =>
        LET removed == last.index[toString(last.key)]
        IN  /\ Len(rows_) = Len(last.rows) - 1
            /\ ValueEq(PKValue(last.rows[removed + 1]), last.key)
            /\ \A i \in Positions(rows_) :
                rows_[i] = last.rows[IF i <= removed THEN i ELSE i + 1]
            /\ \A k \in DOMAIN last.index \ {toString(last.key)} :
                /\ k \in DOMAIN primary_key_index_
                /\ primary_key_index_[k] =
                     IF last.index[k] > removed THEN last.index[k] - 1 ELSE last.index[k]
            /\ \A other \in KeyInputs :
                ~ValueEq(other, last.key) =>
                    LET before == findRowByPK(last.index, other)
                        after == findRowByPK(primary_key_index_, other)
                    IN  /\ before.has = after.has
                        /\ before.has => rows_[after.val + 1] = last.rows[before.val + 1]

\* C10: once deleteRow(k) has returned true, findRowByPK(k) returns not-found
\* until an insertRow or updateRow stores a row whose primary key equals k.
C10_DeletedStaysAbsent ==
    deleted.has => ~findRowByPK(primary_key_index_, deleted.key).has

\* C11: updateRow(k, v) and deleteRow(k) with a key k that no stored row has
\* return false without raising an error and leave rows and index unchanged.
C11_AbsentKeyNotFound ==
    (last.op \in {"updateRow", "deleteRow"} /\ ~HasKey(last.rows, last.key)) =>
        /\ last.ret = "false"
        /\ rows_ = last.rows
        /\ primary_key_index_ = last.index

\* C12: after clear() the table has no rows and an empty index, findRowByPK
\* returns not-found for every key, the name, the schema and the primary-key
\* column are unchanged, and every row that an empty table accepts is accepted.
C12_ClearResets ==
    [][last'.op = "clear" =>
        /\ rows_' = <<>>
        /\ DOMAIN primary_key_index_' = {}
        /\ \A key \in KeyInputs : ~(findRowByPK(primary_key_index_, key).has)'
        /\ name_' = name_ /\ schema_' = schema_
        /\ primary_key_column_' = primary_key_column_
        /\ \A row \in RowInputs :
            insertRow(<<>>, EmptyIndex, row).ret = "true"
                => (insertRow(rows_, primary_key_index_, row).ret = "true")']_vars

\* C12 witness: clear() was called on a table that held two rows or more.
C12_Witness ==
    /\ last.op = "clear"
    /\ Len(last.rows) >= 2
    /\ rows_ = <<>>

\* C13: insertRow rejects every row whose number of values differs from the
\* number of schema columns, passed as a value list or as a Row built without
\* a schema, and leaves the table unchanged.
C13_WrongArityRejected ==
    (IsInsert /\ ~HasArity(last.values)) =>
        /\ last.ret = "throw"
        /\ rows_ = last.rows
        /\ primary_key_index_ = last.index

(***************************************************************************)
(* Properties of the threads.  `last` holds the table as the setup left    *)
(* it, frame[t] the call of thread t and what it returned.                 *)
(***************************************************************************)
AllDone == \A t \in Threads : pc[t] = "done"

\* Thread t is inside insertRow's locked part, or inside a reader's.
InInsert(t) == pc[t] \in {"insert_check", "insert_push", "insert_index"}
InRead(t) == pc[t] = "read_body"

\* Thread t is inside updateRow or deleteRow, between its first and its last
\* access to the index and the rows.
InUpdateOrDelete(t) ==
    pc[t] \in {"update_check", "update_erase", "update_assign", "update_store",
               "delete_erase_index", "delete_erase_row", "delete_renumber"}

\* Rows a and b hold equal values in some unique column.
RowsClash(a, b) == \E c \in 1..Len(schema_) : schema_[c].unique /\ ValueEq(a[c], b[c])

\* C14: when every thread calls insertRow with a valid row, the primary keys
\* are pairwise distinct and distinct from the stored ones and no unique
\* column clashes, all calls succeed, the table ends with one more row per
\* thread, and every key finds its row.
C14_DistinctInsertsSucceed ==
    ( /\ AllDone
      /\ \A t \in Threads :
            /\ frame[t].op = "insertRow"
            /\ validate(schema_, frame[t].values)
            /\ ~UniqueClash(last.rows, frame[t].values, nullopt)
      /\ \A t, u \in Threads : t # u => ~RowsClash(frame[t].values, frame[u].values) )
    =>
    ( /\ \A t \in Threads : frame[t].ret = "true"
      /\ Len(rows_) = Len(last.rows) + NumThreads
      /\ \A t \in Threads :
            /\ findRowByPK(primary_key_index_, PKValue(frame[t].values)).has
            /\ rows_[findRowByPK(primary_key_index_, PKValue(frame[t].values)).val + 1]
                    = frame[t].values )

\* C15: every mutating operation (insertRow, updateRow, deleteRow) owns the
\* exclusive lock all the time it reads or writes the rows and the index, and
\* no other thread reads or writes them meanwhile.
C15_MutatorsHoldTheLock ==
    \A t \in Threads :
        (InInsert(t) \/ InUpdateOrDelete(t)) =>
            /\ table_mutex_.writer = t
            /\ \A u \in Threads \ {t} :
                ~(InInsert(u) \/ InUpdateOrDelete(u) \/ InRead(u))

\* C16: an insertRow inside its locked part owns the lock exclusively, with no
\* other insertRow and no reader (getRowCount, isEmpty, findRowByPK,
\* getAllRows) inside; a reader inside owns it shared; and a reader is kept
\* waiting by a writer only, so readers may be inside together.
C16_ExclusiveAndShared ==
    \A t \in Threads :
        /\ InInsert(t) =>
            /\ table_mutex_ = [writer |-> t, readers |-> {}]
            /\ \A u \in Threads \ {t} : ~InInsert(u) /\ ~InRead(u)
        /\ InRead(t) => (t \in table_mutex_.readers /\ table_mutex_.writer = 0)
        /\ (pc[t] = "read_lock" /\ table_mutex_.writer = 0) => ENABLED ReadLock(t)

\* C16 witness: a thread is inside insertRow's locked part while another
\* thread waits for the lock.
C16_Witness ==
    \E t, u \in Threads :
        /\ t # u
        /\ InInsert(t)
        /\ pc[u] \in {"insert_lock", "read_lock"}

\* C17: no deadlock.  A thread that waits for the lock or has returned owns
\* no lock (it is released on every way out, also when insertRow throws), and
\* every call returns in the end.
C17_NoDeadlock ==
    /\ [](\A t \in Threads :
            pc[t] \in {"insert_lock", "read_lock", "find_read", "done"} =>
                (table_mutex_.writer # t /\ t \notin table_mutex_.readers))
    /\ \A t \in Threads : <>(pc[t] = "done")

\* C17 witness: all calls have returned, an insertRow that threw and a call of
\* another thread among them.
C17_Witness ==
    /\ AllDone
    /\ table_mutex_ = Unlocked
    /\ \E t, u \in Threads :
        /\ t # u
        /\ frame[t].op = "insertRow" /\ frame[t].ret = "throw"
        /\ frame[u].op \in {"insertRow", "findRowByPK"}

\* C18: while writers insert rows with fresh keys, no row of the setup is lost
\* or altered, a findRowByPK of a key of the setup gets that row, and the
\* values the reader then reads from it are the row's stored values.
C18_ReadersSeeStoredRows ==
    /\ SubSeq(rows_, 1, Len(last.rows)) = last.rows
    /\ \A t \in Threads :
        (frame[t].op = "findRowByPK" /\ HasKey(last.rows, frame[t].key)) =>
            /\ pc[t] \in {"find_read", "done"} =>
                /\ frame[t].found.has
                /\ ValueEq(PKValue(rows_[frame[t].found.val + 1]), frame[t].key)
            /\ pc[t] = "done" =>
                /\ frame[t].ret = "row"
                /\ frame[t].read = last.rows[frame[t].found.val + 1]

(***************************************************************************)
(* Properties of save and load.  `saved` holds the tables as they were     *)
(* when the file was written.                                              *)
(***************************************************************************)
\* The attributes of a column that the round trip keeps.
Attributes(column) ==
    [name |-> column.name, type |-> column.type, nullable |-> column.nullable,
     unique |-> column.unique, has_default |-> column.has_default,
     default_value |-> column.default_value]

SameRows(a, b) ==
    /\ Len(a) = Len(b)
    /\ \A i \in 1..Len(a) :
        /\ Len(a[i]) = Len(b[i])
        /\ \A j \in 1..Len(a[i]) : ValueEq(a[i][j], b[i][j])

\* C19: round trip.  A load of a file that save wrote succeeds and gives the
\* same table names and, per table, the same primary-key column, the same
\* columns in order (name, type, nullable, unique, default) and the same rows
\* in order with all values equal, for all six tags.
C19_RoundTrip ==
    (dbcall.op = "load" /\ file.exists /\ file.parses /\ file.by = "save") =>
        /\ dbcall.ret = "true"
        /\ DOMAIN tables_ = DOMAIN saved
        /\ \A name \in DOMAIN saved :
            /\ tables_[name].primary_key_column = saved[name].primary_key_column
            /\ Len(tables_[name].schema) = Len(saved[name].schema)
            /\ \A c \in 1..Len(saved[name].schema) :
                Attributes(tables_[name].schema[c]) = Attributes(saved[name].schema[c])
            /\ SameRows(tables_[name].rows, saved[name].rows)

\* A row that the columns accept once their constraints are left out.
ValidButForConstraints(schema, row) ==
    /\ ~validate(schema, row)
    /\ validate([c \in 1..Len(schema) |-> [schema[c] EXCEPT !.constraints = <<>>]], row)

Rebuilt == toDatabase(file.tables, NoTables)

\* C21: save and load return true or false and let no exception out: a path
\* that does not open and a write that fails make save return false; a file
\* that is absent, does not parse, does not convert, or whose tables cannot be
\* rebuilt makes load return false.
C21_NoExceptionEscapes ==
    /\ dbcall.op \in {"save", "load"} => dbcall.ret \in {"true", "false"}
    /\ (dbcall.op = "save" /\ dbcall.name \in {"open_fails", "write_fails"})
            => dbcall.ret = "false"
    /\ (dbcall.op = "load" /\ (~file.exists \/ ~file.parses)) => dbcall.ret = "false"
    /\ (dbcall.op = "load" /\ file.exists /\ file.parses
            /\ (FromJsonThrows(file) \/ ~Rebuilt.ok)) => dbcall.ret = "false"

\* C21 witness: a load of a file whose tables cannot be rebuilt has returned false.
C21_Witness ==
    /\ dbcall.op = "load" /\ dbcall.ret = "false"
    /\ file.exists /\ file.parses /\ ~FromJsonThrows(file) /\ ~Rebuilt.ok

\* The values of a document's row, for the columns it has values for.
DocValue(st, r, c) == toValue(st.rows[r][c])
HasValue(st, r, c) == c <= Len(st.rows[r])

\* A document's table that would violate a table invariant.
ViolatesInvariant(st) ==
    LET names == { st.columns[c].name : c \in 1..Len(st.columns) }
        Clash(c) ==
            \E r1 \in 1..Len(st.rows) : \E r2 \in 1..Len(st.rows) :
                /\ r1 # r2 /\ HasValue(st, r1, c) /\ HasValue(st, r2, c)
                /\ ValueEq(DocValue(st, r1, c), DocValue(st, r2, c))
    IN  \/ st.primary_key_column \notin names
        \/ \E c \in 1..Len(st.columns) :
            /\ st.columns[c].name = st.primary_key_column
            /\ \A b \in 1..(c - 1) : st.columns[b].name # st.primary_key_column
            /\ (st.columns[c].nullable \/ ~st.columns[c].unique \/ Clash(c))
        \/ \E c \in 1..Len(st.columns) : st.columns[c].unique /\ Clash(c)
        \/ \E c \in 1..Len(st.columns) : \E r \in 1..Len(st.rows) :
            /\ HasValue(st, r, c)
            /\ \/ isNull(DocValue(st, r, c)) /\ ~st.columns[c].nullable
               \/ ~isNull(DocValue(st, r, c))
                    /\ st.rows[r][c].type_index # st.columns[c].type_index

\* A table with a unique primary key, a consistent index and valid rows.
TableSound(t) ==
    /\ \A i \in 1..Len(t.rows) : \A j \in 1..Len(t.rows) :
            i # j => ~ValueEq(t.rows[i][t.primary_key_column + 1],
                              t.rows[j][t.primary_key_column + 1])
    /\ Cardinality(DOMAIN t.index) = Len(t.rows)
    /\ \A i \in 1..Len(t.rows) :
            /\ getPrimaryKeyValueOf(t.primary_key_column, t.rows[i]) \in DOMAIN t.index
            /\ t.index[getPrimaryKeyValueOf(t.primary_key_column, t.rows[i])] = i - 1
    /\ \A i \in 1..Len(t.rows) : validate(t.schema, t.rows[i])

\* C22: a load of a document with a table that would violate a table
\* invariant returns false, and after a load that returned true every table
\* has a unique primary key, a consistent index and valid rows.
C22_LoadRevalidates ==
    dbcall.op = "load" =>
        /\ (file.exists /\ file.parses /\ ~FromJsonThrows(file)
                /\ \E i \in 1..Len(file.tables) : ViolatesInvariant(file.tables[i]))
            => dbcall.ret = "false"
        /\ dbcall.ret = "true" => \A name \in DOMAIN tables_ : TableSound(tables_[name])

\* C22 witness: a load of a document with two rows of one primary key has
\* returned false.
C22_Witness ==
    /\ dbcall.op = "load" /\ dbcall.ret = "false"
    /\ file.exists /\ file.parses /\ ~FromJsonThrows(file)
    /\ \E i \in 1..Len(file.tables) :
        /\ ~initializeTableThrows([c \in 1..Len(file.tables[i].columns) |->
                                        toColumn(file.tables[i].columns[c])],
                                  file.tables[i].primary_key_column)
        /\ Len(file.tables[i].rows) = 2
        /\ ViolatesInvariant(file.tables[i])

(***************************************************************************)
(* Properties of the tables of a database.  dbcall holds the last call,    *)
(* its arguments and what it returned.                                     *)
(***************************************************************************)
Creates == {"createTable", "createSimpleTable"}

\* C23: createTable (and createSimpleTable, which calls it) with the name of a
\* table that exists throws and leaves every table, with its schema, rows and
\* index, and the set of tables as they were.
C23_DuplicateNameFails ==
    [][(dbcall'.op \in Creates /\ dbcall'.name \in DOMAIN tables_)
            => (dbcall'.ret = "throw" /\ tables_' = tables_)]_vars

\* C23 witness: a create call has thrown for the name of a table with rows.
C23_Witness ==
    /\ dbcall.op \in Creates /\ dbcall.ret = "throw"
    /\ dbcall.name \in DOMAIN tables_
    /\ tables_[dbcall.name].rows # <<>>
    /\ dbcall.op = "createTable" => ~initializeTableThrows(dbcall.arg.schema, dbcall.arg.pk)

\* C24: dropTable(n) returns true exactly when a table n existed; then n is no
\* table any more, the count is one lower and the other tables are as they
\* were; otherwise it returns false and nothing changes.  After a drop that
\* returned true createTable(n, ...) with a sound schema gives an empty table.
C24_DropTable ==
    [][dbcall'.op = "dropTable" =>
        LET n == dbcall'.name
        IN  /\ dbcall'.ret = (IF n \in DOMAIN tables_ THEN "true" ELSE "false")
            /\ ~hasTable(tables_', n)
            /\ ~getTable(tables_', n).has
            /\ n \in DOMAIN tables_ => getTableCount(tables_') = getTableCount(tables_) - 1
            /\ \A m \in DOMAIN tables_ \ {n} :
                    getTable(tables_', m) = Some(tables_[m])
            /\ n \notin DOMAIN tables_ => tables_' = tables_
            /\ dbcall'.ret = "true" =>
                \A cfg \in CatalogConfigs :
                    (cfg.name = n /\ ~initializeTableThrows(cfg.schema, cfg.pk)) =>
                        LET created == createTable(tables_', cfg.name, cfg.schema, cfg.pk)
                        IN  /\ created.ok
                            /\ created.val[n].rows = <<>>
                            /\ created.val[n].index = EmptyIndex
                            /\ created.val[n].schema = cfg.schema]_vars

\* C24 witness: a table has been dropped while another with rows stays.
C24_Witness ==
    /\ dbcall.op = "dropTable" /\ dbcall.ret = "true"
    /\ \E m \in DOMAIN tables_ : tables_[m].rows # <<>>

\* The specifications of a createSimpleTable call name the primary key.
NamesKey(cfg) == \E i \in 1..Len(cfg.specs) : cfg.specs[i].name = cfg.pk

\* C25: createSimpleTable with a new table name and a primary-key name that a
\* specification has creates the table with the columns of the
\* specifications: the column named as primary key unique and not nullable,
\* every other column not unique and nullable as the caller said.  With a
\* primary-key name that no specification has it creates no table.
C25_SimpleTable ==
    [][dbcall'.op = "createSimpleTable" =>
        LET cfg == dbcall'.arg
        IN  /\ (NamesKey(cfg) /\ cfg.name \notin DOMAIN tables_) =>
                /\ dbcall'.ret = "table"
                /\ cfg.name \in DOMAIN tables_'
                /\ Len(tables_'[cfg.name].schema) = Len(cfg.specs)
                /\ \A i \in 1..Len(cfg.specs) :
                    LET col == tables_'[cfg.name].schema[i]
                    IN  /\ col.name = cfg.specs[i].name
                        /\ col.type = cfg.specs[i].type
                        /\ col.name = cfg.pk => (col.unique /\ ~col.nullable)
                        /\ col.name # cfg.pk =>
                            (~col.unique /\ col.nullable = cfg.specs[i].nullable)
            /\ ~NamesKey(cfg) => (dbcall'.ret = "throw" /\ tables_' = tables_)]_vars

\* C25 witness: a table has been created from specifications that said the
\* primary-key column is nullable.
C25_Witness ==
    /\ dbcall.op = "createSimpleTable" /\ dbcall.ret = "table"
    /\ \E i \in 1..Len(dbcall.arg.specs) :
        dbcall.arg.specs[i].name = dbcall.arg.pk /\ dbcall.arg.specs[i].nullable

\* A schema and primary-key name that Table's constructor has to reject.
Unsound(schema, pk_name) ==
    \/ schema = <<>>
    \/ \A i \in 1..Len(schema) : schema[i].name # pk_name
    \/ \E i \in 1..Len(schema) :
        /\ schema[i].name = pk_name
        /\ \A j \in 1..(i - 1) : schema[j].name # pk_name
        /\ (schema[i].nullable \/ ~schema[i].unique)

\* C26: every table has a schema with a column and a primary-key column of the
\* schema that is unique and not nullable; createTable with no column, with a
\* primary-key name that no column has or with a primary-key column that is
\* nullable or not unique throws and adds no table.
C26_TablesAreSound ==
    [][/\ \A n \in DOMAIN tables_' :
            /\ tables_'[n].schema # <<>>
            /\ tables_'[n].primary_key_column \in 0..(Len(tables_'[n].schema) - 1)
            /\ tables_'[n].schema[tables_'[n].primary_key_column + 1].unique
            /\ ~tables_'[n].schema[tables_'[n].primary_key_column + 1].nullable
       /\ (dbcall'.op = "createTable" /\ Unsound(dbcall'.arg.schema, dbcall'.arg.pk))
            => (dbcall'.ret = "throw" /\ tables_' = tables_)]_vars

\* C26 witness: createTable has thrown for a nullable or not unique
\* primary-key column and a table name that is free.
C26_Witness ==
    /\ dbcall.op = "createTable" /\ dbcall.ret = "throw"
    /\ dbcall.name \notin DOMAIN tables_
    /\ dbcall.arg.schema # <<>>
    /\ \E i \in 1..Len(dbcall.arg.schema) : dbcall.arg.schema[i].name = dbcall.arg.pk

\* C29: the columns of every table have names that differ.
C29_ColumnNamesUnique ==
    \A n \in DOMAIN tables_ :
        \A i \in 1..Len(tables_[n].schema) : \A j \in 1..Len(tables_[n].schema) :
            i # j => tables_[n].schema[i].name # tables_[n].schema[j].name

(***************************************************************************)
(* Properties of Column::validateValue.                                    *)
(***************************************************************************)
\* What a constraint has to say about a value that is not Null, its two
\* bounds included.
Within(c, v) ==
    IF c.kind = "range" THEN getType(v) = c.type /\ c.min <= v.n /\ v.n <= c.max
    ELSE getType(v) = "String" /\ c.min <= Len(v.s) /\ Len(v.s) <= c.max

\* C28: validateValue(v) is the nullable flag for Null, false for a value of
\* another tag than the column type, and else true exactly when every
\* constraint accepts v, range and length constraints with both bounds
\* included.
C28_ValidateValue ==
    last.op = "validateValue" =>
        last.ret = (IF isNull(last.value) THEN last.column.nullable
                    ELSE IF getType(last.value) # last.column.type THEN FALSE
                    ELSE \A i \in 1..Len(last.column.constraints) :
                            Within(last.column.constraints[i], last.value))

\* C28 witness: a value on the upper bound of a range constraint has been
\* accepted.
C28_Witness ==
    /\ last.op = "validateValue" /\ last.ret
    /\ last.column.constraints # <<>>
    /\ \E i \in 1..Len(last.column.constraints) :
        /\ last.column.constraints[i].kind = "range"
        /\ last.value.n = last.column.constraints[i].max

(***************************************************************************)
(* Properties of the scans.  last.key holds the predicate, last.found the  *)
(* positions returned.                                                     *)
(***************************************************************************)
\* The positions i .. Len(rows_) - 1 of the rows for which the predicate holds;
\* a row on which it fails counts as one for which it does not hold.
RECURSIVE MatchesFrom(_, _)
MatchesFrom(predicate, i) ==
    IF i > Len(rows_) THEN <<>>
    ELSE (IF Call1(predicate, schema_, rows_[i]) = "true" THEN <<i - 1>> ELSE <<>>)
            \o MatchesFrom(predicate, i + 1)

\* C27: findRows and findRowsByColumn return, in storage order, the rows for
\* which the predicate holds, whether or not it failed on other rows; no
\* failure ends the scan or reaches the caller.
C27_ScanSkipsFailures ==
    last.op \in {"findRows", "findRowsByColumn"} =>
        /\ last.ret = "results"
        /\ last.found = MatchesFrom(last.key, 1)

\* C30: every stored row has one value per column of the schema, and every
\* value passes validateValue of its column: not Null where the column is not
\* nullable, of the column type, and accepted by every constraint.
C30_StoredRowsValid ==
    \A i \in 1..Len(rows_) :
        /\ Len(rows_[i]) = Len(schema_)
        /\ \A c \in 1..Len(schema_) :
            /\ isNull(rows_[i][c]) => schema_[c].nullable
            /\ ~isNull(rows_[i][c]) =>
                /\ getType(rows_[i][c]) = schema_[c].type
                /\ \A k \in 1..Len(schema_[c].constraints) :
                        Within(schema_[c].constraints[k], rows_[i][c])

\* C30 witness: at least two rows are stored in a table whose schema has a
\* constrained column, and the last call is an updateRow that succeeded.
C30_Witness ==
    /\ Len(rows_) >= 2
    /\ last.op = "updateRow" /\ last.ret = "true"
    /\ \E i \in 1..Len(rows_) : \E c \in 1..Len(schema_) : schema_[c].constraints # <<>>

(***************************************************************************)
(* Row objects held by a caller: values_, schema_ (a pointer to a schema   *)
(* or nullptr) and the cache name_to_index_, built on the first access by  *)
(* name.                                                                   *)
(***************************************************************************)
RowObject(values, schema, name_to_index) ==
    [values_ |-> values, schema_ |-> schema, name_to_index_ |-> name_to_index]

NoMapping == [n \in {} |-> 0]

\* The loop of Row::buildNameMapping over a schema.
NameMapping(schema) ==
    [n \in {schema[i].name : i \in 1..Len(schema)} |-> ColumnIndexByName(schema, n)]

\* Row::buildNameMapping
buildNameMapping(o) ==
    IF DOMAIN o.name_to_index_ = {} /\ o.schema_.has
    THEN RowObject(o.values_, o.schema_, NameMapping(o.schema_.val))
    ELSE o

\* Row::Row(const std::vector<Column>* schema)
RowOfSchema(schema) ==
    RowObject([i \in 1..Len(schema) |-> getDefaultOrNull(schema[i])], Some(schema), NoMapping)

\* Row::Row(schema, values), where it does not throw.
RowOfValues(schema, values) == RowObject(values, Some(schema), NoMapping)

\* Row::Row(const Row& other)
RowCopy(other) == RowObject(other.values_, other.schema_, NoMapping)

\* Row::Row(Row&& other), the new object.
RowMove(other) == RowObject(other.values_, other.schema_, other.name_to_index_)

\* What a move leaves in other: no schema, no values, and a map in a valid
\* state that the standard does not specify; the model has it either empty
\* or with the entries it had.
MovedFrom(other) ==
    { RowObject(<<>>, nullptr, m) : m \in {NoMapping, other.name_to_index_} }

\* A copy assignment that leaves the cache of the assigned row as it is.
RowCopyAssignKeepsCache(this, other) ==
    RowObject(other.values_, other.schema_, this.name_to_index_)

\* Row::operator=(const Row& other), this # &other
RowCopyAssign(this, other) == RowObject(other.values_, other.schema_, NoMapping)

\* Row::operator=(Row&& other), this # &other: the assigned object.
RowMoveAssign(this, other) == RowObject(other.values_, other.schema_, other.name_to_index_)

\* Row::setSchema(schema), schema not nullptr
RowSetSchema(o, schema) == RowObject(setSchema(schema, o.values_), Some(schema), NoMapping)

\* The lookup name_to_index_.find(column_name) after buildNameMapping.
Find(o, column_name) ==
    IF column_name \in DOMAIN buildNameMapping(o).name_to_index_
    THEN Some(buildNameMapping(o).name_to_index_[column_name])
    ELSE nullopt

\* Row::getValue(column_name): the index used, or "not_found" for the
\* invalid_argument that names the column.
RowGetValue(o, column_name) ==
    IF ~Find(o, column_name).has THEN [ret |-> "not_found", index |-> 0]
    ELSE IF Find(o, column_name).val >= Len(o.values_) THEN [ret |-> "out_of_bounds", index |-> Find(o, column_name).val]
    ELSE [ret |-> "value", index |-> Find(o, column_name).val]

\* Row::setValue(column_name, value): the row afterwards and the outcome.
RowSetValue(o, column_name, value) ==
    LET b == buildNameMapping(o)
        f == Find(o, column_name)
    IN  IF ~f.has THEN [ret |-> "not_found", index |-> 0, row |-> b]
        ELSE IF f.val >= Len(o.values_) THEN [ret |-> "out_of_range", index |-> f.val, row |-> b]
        ELSE IF o.schema_.has /\ f.val < Len(o.schema_.val)
                /\ ~validateValue(o.schema_.val[f.val + 1], value)
        THEN [ret |-> "invalid_value", index |-> f.val, row |-> b]
        ELSE [ret |-> "void", index |-> f.val,
              row |-> RowObject([b.values_ EXCEPT ![f.val + 1] = value], b.schema_, b.name_to_index_)]

\* The schemas and rows a caller builds its Row objects from: "id" is the
\* first column of one schema and the second of the other.
RowSchemas == {UsersSchema, ContactsSchema}

RowValuesOf(schema) ==
    IF schema = UsersSchema THEN {<<Int32Value(1), Int32Value(28)>>}
    ELSE {<<StringValue("a"), Int32Value(1)>>}

NameInputs == {"id", "age", "email", "nope"}

\* The record of a call on a Row: schema is the schema_ of the row at the call.
RowCall(op, slot, before, column_name, ret, index) ==
    [op |-> op, slot |-> slot, schema |-> before.schema_, column_name |-> column_name,
     ret |-> ret, index |-> index]

OnlyLocals ==
    UNCHANGED <<name_, schema_, primary_key_column_, rows_, primary_key_index_,
                deleted, tvars, dvars, pvars, name_to_index_>>

\* Row r(schema), Row r(schema, values), Row r: a new object in the slot.
RowConstruct ==
    \E slot \in Slots : \E o \in {Row0} \cup { RowOfSchema(sc) : sc \in RowSchemas }
                                        \cup UNION { { RowOfValues(sc, v) : v \in RowValuesOf(sc) } : sc \in RowSchemas } :
        /\ locals' = [locals EXCEPT ![slot] = o]
        /\ last' = RowCall("Row", slot, locals[slot], "", "void", 0)
        /\ OnlyLocals

\* Row r(other): a new object in the slot, copied from the other slot.
RowCopyConstruct ==
    \E slot \in Slots : \E other \in Slots \ {slot} :
        /\ locals' = [locals EXCEPT ![slot] = RowCopy(locals[other])]
        /\ last' = RowCall("copy", slot, locals[slot], "", "void", 0)
        /\ OnlyLocals

\* Row r(std::move(other))
RowMoveConstruct ==
    \E slot \in Slots : \E other \in Slots \ {slot} : \E left \in MovedFrom(locals[other]) :
        /\ locals' = [locals EXCEPT ![slot] = RowMove(locals[other]), ![other] = left]
        /\ last' = RowCall("move", slot, locals[slot], "", "void", 0)
        /\ OnlyLocals

\* r = other
RowAssign ==
    \E slot \in Slots : \E other \in Slots \ {slot} :
        /\ locals' = [locals EXCEPT ![slot] = RowCopyAssign(locals[slot], locals[other])]
        /\ last' = RowCall("operator=", slot, locals[slot], "", "void", 0)
        /\ OnlyLocals

\* r = std::move(other)
RowMoveAssignment ==
    \E slot \in Slots : \E other \in Slots \ {slot} : \E left \in MovedFrom(locals[other]) :
        /\ locals' = [locals EXCEPT ![slot] = RowMoveAssign(locals[slot], locals[other]),
                                    ![other] = left]
        /\ last' = RowCall("operator=&&", slot, locals[slot], "", "void", 0)
        /\ OnlyLocals

\* r.setSchema(&schema)
SetSchema ==
    \E slot \in Slots : \E sc \in RowSchemas :
        /\ locals' = [locals EXCEPT ![slot] = RowSetSchema(locals[slot], sc)]
        /\ last' = RowCall("setSchema", slot, locals[slot], "", "void", 0)
        /\ OnlyLocals

\* r.getValue(column_name)
GetValueByName ==
    \E slot \in Slots : \E column_name \in NameInputs :
        LET o == RowGetValue(locals[slot], column_name)
        IN  /\ locals' = [locals EXCEPT ![slot] = buildNameMapping(locals[slot])]
            /\ last' = RowCall("getValue", slot, locals[slot], column_name, o.ret, o.index)
            /\ OnlyLocals

\* r.setValue(column_name, value)
SetValueByName ==
    \E slot \in Slots : \E column_name \in NameInputs : \E value \in {Int32Value(2)} :
        LET o == RowSetValue(locals[slot], column_name, value)
        IN  /\ locals' = [locals EXCEPT ![slot] = o.row]
            /\ last' = RowCall("setValue", slot, locals[slot], column_name, o.ret, o.index)
            /\ OnlyLocals

NextRow ==
    \/ RowConstruct
    \/ RowCopyConstruct
    \/ RowMoveConstruct
    \/ RowAssign
    \/ RowMoveAssignment
    \/ SetSchema
    \/ GetValueByName
    \/ SetValueByName

SpecRow == InitDatabase /\ [][NextRow]_vars

(***************************************************************************)
(* Properties of Row objects.                                              *)
(***************************************************************************)
\* C31: a get or set by name on a row with a schema uses the position that
\* the column of that name has in the schema the row has at the call, and
\* reports a name that no column of that schema has as not found, whatever
\* constructions, copies, moves, assignments and setSchema calls came before.
C31_CacheFollowsSchema ==
    (last.op \in {"getValue", "setValue"} /\ last.schema.has) =>
        LET schema == last.schema.val
            named == { i \in 1..Len(schema) : schema[i].name = last.column_name }
        IN  /\ named = {} => last.ret = "not_found"
            /\ named # {} => (last.ret # "not_found" /\ last.index + 1 \in named)

\* C31 witness: a row whose cache was built for one schema was given another
\* schema in which the name has another position, and a get by name found it.
C31_Witness ==
    /\ last.op = "getValue" /\ last.ret = "value"
    /\ last.column_name = "id" /\ last.index = 1
    /\ \E slot \in Slots : locals[slot].name_to_index_ = NameMapping(UsersSchema)

(***************************************************************************)
(* ThreadPool.  A worker is at one of                                      *)
(*   "lock"     about to lock queue_mutex_, at the top of the loop or      *)
(*              after a wakeup                                             *)
(*   "pred"     holds the lock, about to evaluate the wait predicate       *)
(*   "block"    holds the lock, found the predicate false, about to block  *)
(*   "waiting"  blocked on condition_, the lock released                   *)
(*   "take"     holds the lock, the wait has returned                      *)
(*   "run"      the lock released, about to call its task                  *)
(*   "exited"   returned from worker_thread                                *)
(***************************************************************************)
OnlyPool ==
    UNCHANGED <<name_, schema_, primary_key_column_, rows_, primary_key_index_,
                last, deleted, tvars, dvars, locals, name_to_index_>>

Waiting == { w \in Workers : workers[w].pc = "waiting" }

\* What the task submitted as number t returns.
TaskValue(t) == 40 + t

\* std::unique_lock<std::mutex> lock(queue_mutex_), and the lock taken again
\* by a wait that was woken.
WorkerLock(w) ==
    /\ workers[w].pc = "lock"
    /\ queue_mutex_ = 0
    /\ queue_mutex_' = w
    /\ workers' = [workers EXCEPT ![w].pc = "pred"]
    /\ UNCHANGED <<tasks_, stop_, clients, futures>>
    /\ OnlyPool

\* The predicate of condition_.wait: stop_ || !tasks_.empty()
WorkerPredicate(w) ==
    /\ workers[w].pc = "pred"
    /\ workers' = [workers EXCEPT ![w].pc = IF stop_ \/ tasks_ # <<>> THEN "take" ELSE "block"]
    /\ UNCHANGED <<tasks_, stop_, queue_mutex_, clients, futures>>
    /\ OnlyPool

\* condition_.wait releases the lock and blocks, in one step.
WorkerBlock(w) ==
    /\ workers[w].pc = "block"
    /\ queue_mutex_' = 0
    /\ workers' = [workers EXCEPT ![w].pc = "waiting"]
    /\ UNCHANGED <<tasks_, stop_, clients, futures>>
    /\ OnlyPool

\* A wait may return without a notification.
SpuriousWakeup(w) ==
    /\ workers[w].pc = "waiting"
    /\ workers' = [workers EXCEPT ![w].pc = "lock"]
    /\ UNCHANGED <<tasks_, stop_, queue_mutex_, clients, futures>>
    /\ OnlyPool

\* A worker that runs the front task and leaves it in the queue.
WorkerTakeKeepsTask(w) ==
    /\ workers[w].pc = "take"
    /\ queue_mutex_' = 0
    /\ IF stop_ /\ tasks_ = <<>>
       THEN workers' = [workers EXCEPT ![w].pc = "exited"]
       ELSE IF tasks_ # <<>>
       THEN workers' = [workers EXCEPT ![w] = [pc |-> "run", task |-> Head(tasks_)]]
       ELSE workers' = [workers EXCEPT ![w].pc = "lock"]
    /\ UNCHANGED <<tasks_, stop_, clients, futures>>
    /\ OnlyPool

\* A worker that returns as soon as stop_ is set.
WorkerTakeStopsAtOnce(w) ==
    /\ workers[w].pc = "take"
    /\ queue_mutex_' = 0
    /\ IF stop_
       THEN /\ workers' = [workers EXCEPT ![w].pc = "exited"]
            /\ UNCHANGED tasks_
       ELSE IF tasks_ # <<>>
       THEN /\ workers' = [workers EXCEPT ![w] = [pc |-> "run", task |-> Head(tasks_)]]
            /\ tasks_' = Tail(tasks_)
       ELSE /\ workers' = [workers EXCEPT ![w].pc = "lock"]
            /\ UNCHANGED tasks_
    /\ UNCHANGED <<stop_, clients, futures>>
    /\ OnlyPool

\* After the wait: return when stop_ is set and the queue is empty, otherwise
\* take the front task if there is one; the lock is released at the end of
\* the block.
WorkerTake(w) ==
    /\ workers[w].pc = "take"
    /\ queue_mutex_' = 0
    /\ IF stop_ /\ tasks_ = <<>>
       THEN /\ workers' = [workers EXCEPT ![w].pc = "exited"]
            /\ UNCHANGED tasks_
       ELSE IF tasks_ # <<>>
       THEN /\ workers' = [workers EXCEPT ![w] = [pc |-> "run", task |-> Head(tasks_)]]
            /\ tasks_' = Tail(tasks_)
       ELSE /\ workers' = [workers EXCEPT ![w].pc = "lock"]
            /\ UNCHANGED tasks_
    /\ UNCHANGED <<stop_, clients, futures>>
    /\ OnlyPool

\* task(): the packaged_task runs the function and makes the future ready.
WorkerRun(w) ==
    /\ workers[w].pc = "run"
    /\ LET t == workers[w].task
       IN  futures' = [futures EXCEPT ![t] = Future("ready", TaskValue(t), @.runs + 1, @.by \cup {w})]
    /\ workers' = [workers EXCEPT ![w] = [pc |-> "lock", task |-> 0]]
    /\ UNCHANGED <<tasks_, stop_, queue_mutex_, clients>>
    /\ OnlyPool

\* The pool can be used until its destructor has returned.
Alive == clients[Owner].pc # "destroyed"

\* The tasks that were put into the queue.
Accepted == { t \in Tasks : futures[t].state \in {"pending", "ready"} }
Finished == { t \in Tasks : futures[t].state = "ready" }

\* submit: the packaged_task and its future are made before the lock is taken.
SubmitCall(c) ==
    /\ Alive
    /\ clients[c].pc = "idle"
    /\ \E t \in Tasks :
        /\ futures[t].state = "none"
        /\ \A u \in Tasks : u < t => futures[u].state # "none"
        /\ futures' = [futures EXCEPT ![t].state = "made"]
        /\ clients' = [clients EXCEPT ![c] = [Client("s_lock", t, "none") EXCEPT !.stopped = stop_]]
    /\ UNCHANGED <<tasks_, stop_, queue_mutex_, workers>>
    /\ OnlyPool

SubmitLock(c) ==
    /\ Alive
    /\ clients[c].pc = "s_lock"
    /\ queue_mutex_ = 0
    /\ queue_mutex_' = c
    /\ clients' = [clients EXCEPT ![c].pc = "s_check"]
    /\ UNCHANGED <<tasks_, stop_, workers, futures>>
    /\ OnlyPool

\* if (stop_) throw std::runtime_error(...): the lock is released by the
\* unwinding and the future is dropped.
SubmitCheck(c) ==
    /\ Alive
    /\ clients[c].pc = "s_check"
    /\ IF stop_
       THEN /\ queue_mutex_' = 0
            /\ clients' = [clients EXCEPT ![c].pc = "idle", ![c].ret = "throw"]
            /\ futures' = [futures EXCEPT ![clients[c].task].state = "dropped"]
       ELSE /\ clients' = [clients EXCEPT ![c].pc = "s_emplace"]
            /\ UNCHANGED <<queue_mutex_, futures>>
    /\ UNCHANGED <<tasks_, stop_, workers>>
    /\ OnlyPool

\* tasks_.emplace(...) and the end of the locked block.
SubmitEmplace(c) ==
    /\ Alive
    /\ clients[c].pc = "s_emplace"
    /\ tasks_' = Append(tasks_, clients[c].task)
    /\ futures' = [futures EXCEPT ![clients[c].task].state = "pending"]
    /\ queue_mutex_' = 0
    /\ clients' = [clients EXCEPT ![c].pc = "s_notify"]
    /\ UNCHANGED <<stop_, workers>>
    /\ OnlyPool

\* condition_.notify_one(): one of the waiting workers, if there is one.
SubmitNotify(c) ==
    /\ Alive
    /\ clients[c].pc = "s_notify"
    /\ IF Waiting = {} THEN UNCHANGED workers
       ELSE \E w \in Waiting : workers' = [workers EXCEPT ![w].pc = "lock"]
    /\ clients' = [clients EXCEPT ![c].pc = "idle", ![c].ret = "future"]
    /\ UNCHANGED <<tasks_, stop_, queue_mutex_, futures>>
    /\ OnlyPool

\* waitForTasks is called: before is the set of tasks submitted by then.
WaitCall(c) ==
    /\ Alive
    /\ clients[c].pc = "idle"
    /\ clients' = [clients EXCEPT ![c] = [Client("w_lock", 0, "none") EXCEPT !.before = Accepted]]
    /\ UNCHANGED <<tasks_, stop_, queue_mutex_, workers, futures>>
    /\ OnlyPool

WaitLock(c) ==
    /\ Alive
    /\ clients[c].pc = "w_lock"
    /\ queue_mutex_ = 0
    /\ queue_mutex_' = c
    /\ clients' = [clients EXCEPT ![c].pc = "w_check"]
    /\ UNCHANGED <<tasks_, stop_, workers, futures>>
    /\ OnlyPool

\* if (tasks_.empty()) break; otherwise unlock, sleep and try again.  At the
\* return, unfinished is the set of the tasks in before that have not run.
WaitCheck(c) ==
    /\ Alive
    /\ clients[c].pc = "w_check"
    /\ queue_mutex_' = 0
    /\ clients' = IF tasks_ = <<>>
                  THEN [clients EXCEPT ![c].pc = "idle", ![c].ret = "waited",
                                       ![c].unfinished = clients[c].before \ Finished]
                  ELSE [clients EXCEPT ![c].pc = "w_lock"]
    /\ UNCHANGED <<tasks_, stop_, workers, futures>>
    /\ OnlyPool

\* ~ThreadPool begins: before is the set of tasks submitted by then.
DestroyCall ==
    /\ clients[Owner].pc = "idle"
    /\ clients' = [clients EXCEPT ![Owner] = [Client("d_stop", 0, "none") EXCEPT !.before = Accepted]]
    /\ UNCHANGED <<tasks_, stop_, queue_mutex_, workers, futures>>
    /\ OnlyPool

\* stop_ = true, without the lock
DestroyStop ==
    /\ clients[Owner].pc = "d_stop"
    /\ stop_' = TRUE
    /\ clients' = [clients EXCEPT ![Owner].pc = "d_notify"]
    /\ UNCHANGED <<tasks_, queue_mutex_, workers, futures>>
    /\ OnlyPool

\* condition_.notify_all(): every worker that is waiting
DestroyNotify ==
    /\ clients[Owner].pc = "d_notify"
    /\ workers' = [w \in Workers |-> IF w \in Waiting THEN [workers[w] EXCEPT !.pc = "lock"]
                                     ELSE workers[w]]
    /\ clients' = [clients EXCEPT ![Owner].pc = "d_join"]
    /\ UNCHANGED <<tasks_, stop_, queue_mutex_, futures>>
    /\ OnlyPool

\* The joins return when every worker has returned from worker_thread.
DestroyJoin ==
    /\ clients[Owner].pc = "d_join"
    /\ \A w \in Workers : workers[w].pc = "exited"
    /\ clients' = [clients EXCEPT ![Owner].pc = "destroyed", ![Owner].ret = "void",
                                  ![Owner].unfinished = Accepted \ Finished]
    /\ UNCHANGED <<tasks_, stop_, queue_mutex_, workers, futures>>
    /\ OnlyPool

NextPool ==
    \/ \E w \in Workers : WorkerLock(w)
    \/ \E w \in Workers : WorkerPredicate(w)
    \/ \E w \in Workers : WorkerBlock(w)
    \/ \E w \in Workers : SpuriousWakeup(w)
    \/ \E w \in Workers : WorkerTake(w)
    \/ \E w \in Workers : WorkerRun(w)
    \/ \E c \in Clients : SubmitCall(c)
    \/ \E c \in Clients : SubmitLock(c)
    \/ \E c \in Clients : SubmitCheck(c)
    \/ \E c \in Clients : SubmitEmplace(c)
    \/ \E c \in Clients : SubmitNotify(c)
    \/ WaitCall(Owner)
    \/ WaitLock(Owner)
    \/ WaitCheck(Owner)
    \/ DestroyCall
    \/ DestroyStop
    \/ DestroyNotify
    \/ DestroyJoin

SpecPool == InitDatabase /\ [][NextPool]_vars

\* The steps of a worker and of a call that has begun, other than taking the
\* lock and other than a wakeup without notification.
WorkerStep(w) == WorkerPredicate(w) \/ WorkerBlock(w) \/ WorkerTake(w) \/ WorkerRun(w)
ClientStep(c) ==
    \/ SubmitCheck(c) \/ SubmitEmplace(c) \/ SubmitNotify(c)
    \/ (c = Owner /\ (WaitCheck(c) \/ DestroyStop \/ DestroyNotify \/ DestroyJoin))
ClientLock(c) == SubmitLock(c) \/ (c = Owner /\ WaitLock(c))

\* Every thread that can take a step takes one in the end, and a thread that
\* asks for the mutex again and again while it is free at times gets it.
FairSpecPool ==
    /\ SpecPool
    /\ \A w \in Workers : WF_vars(WorkerStep(w)) /\ SF_vars(WorkerLock(w))
    /\ \A c \in Clients : WF_vars(ClientStep(c)) /\ SF_vars(ClientLock(c))

(***************************************************************************)
(* Properties of the thread pool.                                          *)
(***************************************************************************)
InQueue(t) == { i \in 1..Len(tasks_) : tasks_[i] = t }
Holders(t) == { w \in Workers : workers[w].pc = "run" /\ workers[w].task = t }

\* A task in the queue is there once and in no worker's hands, a task taken
\* is in one worker's hands, and a task that was run was run once, by one
\* worker, and its future holds what the task returned.
RunsOnce(t) ==
    /\ futures[t].runs <= 1
    /\ futures[t].state = "pending" =>
            /\ futures[t].runs = 0
            /\ Cardinality(InQueue(t)) + Cardinality(Holders(t)) = 1
    /\ futures[t].state = "ready" =>
            /\ futures[t].runs = 1
            /\ Cardinality(futures[t].by) = 1
            /\ futures[t].value = TaskValue(t)
            /\ InQueue(t) = {} /\ Holders(t) = {}

C33_DestructorDrainsQueue ==
    /\ clients[Owner].pc = "destroyed" =>
            /\ clients[Owner].before \subseteq Finished
            /\ Accepted \subseteq Finished
            /\ tasks_ = <<>>
    /\ \A w \in Workers : workers[w].pc = "exited" => (stop_ /\ tasks_ = <<>>)
    /\ \A c \in Clients :
            (clients[c].ret \in {"throw", "future"} /\ clients[c].stopped) =>
                /\ clients[c].ret = "throw"
                /\ futures[clients[c].task].state = "dropped"
                /\ InQueue(clients[c].task) = {}

\* C33 witness: the destructor has returned, a task was submitted before it
\* began, and a submit of the other thread, called after stop_ was set, threw.
C33_Witness ==
    /\ clients[Owner].pc = "destroyed"
    /\ clients[Owner].before # {}
    /\ clients[Other].ret = "throw" /\ clients[Other].stopped

\* C34: when waitForTasks returns, every task submitted before the call has
\* been run to its end.
C34_WaitForTasksWaits ==
    clients[Owner].ret = "waited" => clients[Owner].unfinished = {}

\* C35: with fair scheduling the destructor returns: once it has begun, every
\* worker sees stop_, returns and is joined.
C35_DestructorTerminates ==
    (clients[Owner].pc = "d_stop") ~> (clients[Owner].pc = "destroyed")

(***************************************************************************)
(* Null in unique columns.                                                 *)
(***************************************************************************)
\* A stored row other than the excluded one holds Null in a unique column in
\* which values holds Null too.
NullClash(rows, values, exclude_index) ==
    \E c \in 1..Len(schema_) : \E i \in Positions(rows) :
        /\ schema_[c].unique
        /\ ~(exclude_index.has /\ exclude_index.val = i - 1)
        /\ isNull(rows[i][c]) /\ isNull(values[c])

\* C36: at most one stored row holds Null in a unique column, and an insertRow
\* or updateRow of a row with Null in a unique column in which another stored
\* row holds Null is rejected.
C36_NullIsUnique ==
    /\ \A c \in 1..Len(schema_) : \A i, j \in Positions(rows_) :
        (schema_[c].unique /\ i # j) => ~(isNull(rows_[i][c]) /\ isNull(rows_[j][c]))
    /\ (IsInsert /\ HasArity(last.values) /\ NullClash(last.rows, last.values, nullopt))
            => last.ret = "throw"
    /\ (last.op = "updateRow" /\ toString(last.key) \in DOMAIN last.index
            /\ HasArity(last.values)
            /\ NullClash(last.rows, last.values, Some(last.index[toString(last.key)])))
            => last.ret = "throw"

\* C36 witness: an updateRow of a stored row was rejected although the row was
\* valid, kept its primary key and clashed with no other row in a non-null
\* value: its email is Null, as is the email of another stored row.
C36_Witness ==
    /\ name_ = "contacts" /\ last.op = "updateRow" /\ last.ret = "throw"
    /\ toString(last.key) \in DOMAIN last.index
    /\ HasArity(last.values) /\ validate(schema_, last.values)
    /\ toString(PKValue(last.values)) = toString(last.key)
    /\ isNull(last.values[1])
    /\ \E i \in Positions(rows_) :
        /\ i - 1 # last.index[toString(last.key)]
        /\ isNull(rows_[i][1])

(***************************************************************************)
(* Concurrent calls on one table.                                          *)
(***************************************************************************)
\* C37: when every thread calls insertRow with a valid row, all rows carry the
\* same primary key, and no stored row has that key or clashes with them in a
\* unique column, then exactly one call succeeds, the others throw, and the
\* table ends with exactly one row more, the only one with that key.
C37_OneOfEqualKeysWins ==
    ( /\ AllDone
      /\ \A t \in Threads :
            /\ frame[t].op = "insertRow"
            /\ validate(schema_, frame[t].values)
            /\ ~UniqueClash(last.rows, frame[t].values, nullopt)
      /\ \A t, u \in Threads : ValueEq(PKValue(frame[t].values), PKValue(frame[u].values)) )
    =>
    ( /\ Cardinality({ t \in Threads : frame[t].ret = "true" }) = 1
      /\ \A t \in Threads : frame[t].ret \in {"true", "throw"}
      /\ Len(rows_) = Len(last.rows) + 1
      /\ \A t \in Threads :
            Cardinality({ i \in Positions(rows_) :
                            ValueEq(PKValue(rows_[i]), PKValue(frame[t].values)) }) = 1 )

\* C38: whenever the threads' insertRow, updateRow and deleteRow calls have
\* returned, in whatever order their steps were taken, no two stored rows have
\* the same primary key, the index has one entry per row, each below the row
\* count and at the row with that key, and no call has gone outside the
\* storage.
C38_ConcurrentMutatorsKeepIndex ==
    AllDone =>
        /\ \A t \in Threads : frame[t].ret # "fault"
        /\ \A i, j \in Positions(rows_) :
            i # j => ~ValueEq(PKValue(rows_[i]), PKValue(rows_[j]))
        /\ Cardinality(DOMAIN primary_key_index_) = Len(rows_)
        /\ \A k \in DOMAIN primary_key_index_ :
            /\ primary_key_index_[k] \in 0..(Len(rows_) - 1)
            /\ toString(PKValue(rows_[primary_key_index_[k] + 1])) = k

(***************************************************************************)
(* What a load leaves behind.                                              *)
(***************************************************************************)
\* C39: a load that returns false leaves the tables of the database as they
\* were, and a load that returns true replaces them by the tables rebuilt
\* from the document.
C39_FailedLoadKeepsTables ==
    [][dbcall'.op = "load" =>
            /\ dbcall'.ret = "false" => tables_' = tables_
            /\ dbcall'.ret = "true" => tables_' = Rebuilt.val]_vars

(***************************************************************************)
(* Threads that read a stored row by column name:                          *)
(*     const Row* row = table.findRowByPK(key);                            *)
(*     if (row) row->getValue(column_name);                                *)
(* No thread changes the table.  A thread is at one of                     *)
(*   "name_find"    about to call findRowByPK                              *)
(*   "name_empty"   in buildNameMapping, about to read name_to_index_      *)
(*   "name_build"   in the loop of buildNameMapping, about to write the    *)
(*                  entry of the next column                               *)
(*   "name_lookup"  about to look the name up in name_to_index_            *)
(***************************************************************************)
NameFrame(key, column_name) ==
    [op |-> "getValue", key |-> key, column_name |-> column_name, found |-> nullopt,
     column |-> 0, raced |-> FALSE, ret |-> "none", index |-> 0]

NameCalls == { NameFrame(key, column_name) : key \in Ids, column_name \in {"age", "nope"} }

\* A users table that holds one row for each id, none of them read by name
\* so far: insertRow attaches the schema with setSchema, which empties the
\* cache.
InitReaders ==
    /\ name_ = "users" /\ schema_ = UsersSchema
    /\ primary_key_column_ = FirstColumnNamed(UsersSchema, "id")
    /\ LET o == InsertAll(Outcome("true", <<>>, EmptyIndex),
                          [i \in 1..MaxId |-> <<Int32Value(i), Int32Value(28)>>])
       IN  /\ rows_ = o.rows
           /\ primary_key_index_ = o.index
           /\ capacity = CapacityAfter(Len(o.rows))
           /\ last = [op |-> "setup", key |-> NullValue, values |-> <<>>, ret |-> "void",
                      found |-> nullopt, rows |-> o.rows, index |-> o.index]
    /\ name_to_index_ = [i \in 1..MaxId |-> NoMapping]
    /\ deleted = NoKey
    /\ table_mutex_ = Unlocked
    /\ frame \in [Threads -> NameCalls]
    /\ pc = [t \in Threads |-> "name_find"]
    /\ NoDatabase
    /\ NoLocals

OnlyReaders ==
    UNCHANGED <<name_, schema_, primary_key_column_, rows_, primary_key_index_, last,
                deleted, table_mutex_, capacity, dvars, locals, pvars>>

\* The threads other than t that are inside getValue on the row t has, with
\* an access to its cache still to come.
Inside(t) ==
    { u \in Threads \ {t} : /\ pc[u] \in {"name_empty", "name_build", "name_lookup"}
                            /\ frame[u].found = frame[t].found }
Writers(t) == { u \in Inside(t) : pc[u] = "name_build" }

\* Table::findRowByPK; the shared lock is taken and released within the step.
NameFind(t) ==
    /\ pc[t] = "name_find"
    /\ table_mutex_.writer = 0
    /\ LET f == findRowByPK(primary_key_index_, frame[t].key)
       IN  IF f.has
           THEN /\ frame' = [frame EXCEPT ![t].found = f]
                /\ Goto(t, "name_empty")
           ELSE /\ frame' = [frame EXCEPT ![t].ret = "nullptr"]
                /\ Goto(t, "done")
    /\ UNCHANGED name_to_index_
    /\ OnlyReaders

\* buildNameMapping: if (name_to_index_.empty() && schema_)
NameEmpty(t) ==
    /\ pc[t] = "name_empty"
    /\ frame' = [frame EXCEPT ![t].raced = @ \/ Writers(t) # {}]
    /\ Goto(t, IF DOMAIN name_to_index_[frame[t].found.val + 1] = {} /\ Len(schema_) > 0
               THEN "name_build" ELSE "name_lookup")
    /\ UNCHANGED name_to_index_
    /\ OnlyReaders

\* buildNameMapping: name_to_index_[(*schema_)[i].getName()] = i
NameBuild(t) ==
    /\ pc[t] = "name_build"
    /\ LET r == frame[t].found.val + 1
           i == frame[t].column
       IN  /\ name_to_index_' =
                [name_to_index_ EXCEPT ![r] = (schema_[i + 1].name :> i) @@ @]
           /\ frame' = [frame EXCEPT ![t].column = i + 1,
                                     ![t].raced = @ \/ Inside(t) # {}]
           /\ Goto(t, IF i + 1 < Len(schema_) THEN "name_build" ELSE "name_lookup")
    /\ OnlyReaders

\* What the lookup gives when the map was read while another thread wrote it:
\* an entry, no entry, or a fault.
RacedLookups ==
    { [ret |-> "value", index |-> i] : i \in 0..(Len(schema_) - 1) }
    \cup { [ret |-> "not_found", index |-> 0], [ret |-> "fault", index |-> 0] }

\* name_to_index_.find(column_name) and the return of getValue
NameLookup(t) ==
    /\ pc[t] = "name_lookup"
    /\ LET cache == name_to_index_[frame[t].found.val + 1]
           o == IF frame[t].column_name \in DOMAIN cache
                THEN [ret |-> "value", index |-> cache[frame[t].column_name]]
                ELSE [ret |-> "not_found", index |-> 0]
       IN  \E got \in (IF frame[t].raced \/ Writers(t) # {} THEN RacedLookups ELSE {o}) :
                frame' = [frame EXCEPT ![t].ret = got.ret, ![t].index = got.index,
                                       ![t].raced = @ \/ Writers(t) # {}]
    /\ Goto(t, "done")
    /\ UNCHANGED name_to_index_
    /\ OnlyReaders

NextReaders ==
    \/ \E t \in Threads : NameFind(t)
    \/ \E t \in Threads : NameEmpty(t)
    \/ \E t \in Threads : NameBuild(t)
    \/ \E t \in Threads : NameLookup(t)

SpecReaders == InitReaders /\ [][NextReaders]_vars

\* C40: when threads read the same stored row by column name and no thread
\* changes the table, no access of one thread to the row's name_to_index_
\* meets a write of another thread to it: the readers write nothing they
\* share.
C40_ReadersAreRaceFree ==
    \A t \in Threads : ~frame[t].raced

====
